---- MODULE Spec2Model ----
(***************************************************************************)
(* Backup / replication / disaster-recovery coordination of LightRAG.      *)
(*                                                                         *)
(*   lightrag/recovery/disaster_recovery.py   HealthValidator,             *)
(*                                             DisasterRecoveryManager     *)
(*   lightrag/replication/graph_replication.py GraphReplicator,            *)
(*                                             ReplicationManager          *)
(*   lightrag/backup/graph_backup.py           GraphBackup, BackupManager  *)
(*   lightrag/api/routers/backup_replication_routes.py  the REST routes    *)
(*                                                                         *)
(* Coroutines run on one asyncio event loop: the code between two awaits   *)
(* that really suspend is one atomic action, and every suspension point    *)
(* is a position (pc) of the task.                                         *)
(***************************************************************************)
EXTENDS Integers, Sequences, FiniteSets, TLC

VARIABLES
    now,                  \* datetime.utcnow(), in abstract time units
    \* ---- DisasterRecoveryManager ----
    recovery_points,      \* self._recovery_points : checkpoint_id -> RecoveryPoint
    failover_in_progress, \* self._failover_in_progress
    next_checkpoint,      \* number of RecoveryPoint objects constructed (uuid4 ids)
    rtask,                \* the coroutines running on the recovery manager
    \* ---- ReplicationManager, GraphReplicator ----
    target_objs,          \* the ReplicationTarget objects constructed so far
    mgr_targets,          \* ReplicationManager._targets : target_id -> object
    replicators,          \* ReplicationManager._graph_replicators :
                          \*   graph_id -> [targets (._targets), logs (._logs)]
    rcall,                \* the replicate_snapshot call in flight
    deregistered,         \* target ids removed through the DELETE route
    \* ---- GraphBackup ----
    snapshots,            \* self._snapshots : backup_id -> BackupSnapshot
    next_snapshot,        \* number of BackupSnapshot objects constructed (uuid4 ids)
    store,                \* the checkpoint directories under self.storage_path
    working_dir,          \* the graph's working directory on disk
    pre_restore,          \* the directory <working dir>_pre_restore on disk
    bcall,                \* the create_snapshot or restore_snapshot call in flight
    bret,                 \* what the last delete_snapshot or cleanup returned
    \* ---- GraphReplicator.check_target_health ----
    hcall,                \* the check_target_health call in flight
    \* ---- BackupManager.register_graph, ReplicationManager.get_graph_replicator,
    \*      statement by statement, called from several threads ----
    glock,                \* manager -> the thread holding self._lock
    ginstances,           \* manager -> its dict graph_id -> instance
    gmade,                \* manager -> graph_id -> number of instances constructed
    gthread,              \* the calling threads
    \* ---- BackupManager.cleanup_old_backups ----
    last_cleanup,         \* BackupManager._last_cleanup
    mret,                 \* what the last cleanup_old_backups call returned
    \* ---- HealthValidator.full_health_check ----
    fcall,                \* the full_health_check call in flight
    \* ---- the REST routes and the database they persist to ----
    db,                   \* the rows committed to the database: table and key
    route,                \* the last response a route returned
    \* ---- initiate_failover, statement by statement, called from several
    \*      threads ----
    fthread,              \* the threads calling initiate_failover
    \* ---- GraphBackup._calculate_dir_hash ----
    htree,                \* the directory trees handed to _calculate_dir_hash
    hdigest,              \* what _calculate_dir_hash returned for each tree
    \* ---- GraphBackup.restore_snapshot, called by several tasks ----
    tcall,                \* the restore_snapshot calls in flight
    tdirs,                \* the target directories on disk
    tpre,                 \* the directories <target>_pre_restore on disk
    tsuccess,             \* backup_id -> number of restores that returned True
    \* ---- the locks of the ReplicationManager and its GraphReplicators ----
    lock_holder,          \* lock -> the thread that holds it
    lock_thread,          \* thread -> the operation it runs and what is left of it
    lock_replicators,     \* the graphs in ReplicationManager._graph_replicators
    \* ---- delete_snapshot and cleanup_old_snapshots, statement by statement,
    \*      called from several threads ----
    dthread,              \* the calling threads
    dtrue,                \* backup_id -> number of delete_snapshot calls that
                          \*   returned True for it
    \* ---- the arguments the BackupManager was constructed with ----
    store_retention_days,     \* GraphBackup.retention_days
    manager_cleanup_interval, \* BackupManager.auto_cleanup_interval
    manager_constructed_at,   \* when BackupManager.__init__ ran
    \* ---- RAGPool ----
    rag_instances,        \* self._rag_instances : graph_id -> LightRAG
    rag_made,             \* graph_id -> number of LightRAG objects constructed
    async_lock,           \* the task that holds self._async_lock
    sync_lock,            \* the thread that holds self._sync_lock
    pool_caller,          \* the tasks and threads calling the pool
    cache_cleared,        \* clear_cache was called
    \* ---- GraphManager ----
    graphs_cache,         \* the keys of self._graphs_cache, in the dict's order
    default_graph_id,     \* self._default_graph_id
    graph_dirs,           \* the graph directories under graphs/ on disk
    gm_ret                \* what the last GraphManager operation returned

recVars == <<recovery_points, failover_in_progress, next_checkpoint, rtask>>
replVars == <<target_objs, mgr_targets, replicators, rcall, deregistered>>
bakVars == <<snapshots, next_snapshot, store, working_dir, pre_restore,
             bcall, bret>>
probeVars == <<hcall>>
lockVars == <<glock, ginstances, gmade, gthread>>
sweepVars == <<last_cleanup, mret>>
healthVars == <<fcall>>
routeVars == <<db, route>>
foVars == <<fthread>>
hashVars == <<htree, hdigest>>
\* The variables of the sections that stand alone
restoreVars == <<tcall, tdirs, tpre, tsuccess>>
orderVars == <<lock_holder, lock_thread, lock_replicators>>
deleteVars == <<dthread, dtrue>>
managerVars == <<store_retention_days, manager_cleanup_interval,
                 manager_constructed_at>>
poolVars == <<rag_instances, rag_made, async_lock, sync_lock, pool_caller,
              cache_cleared>>
graphVars == <<graphs_cache, default_graph_id, graph_dirs, gm_ret>>
extraVars == <<hashVars, restoreVars, orderVars, deleteVars, managerVars,
               poolVars, graphVars>>
vars == <<now, recVars, replVars, bakVars, probeVars, lockVars, sweepVars,
          healthVars, routeVars, foVars, extraVars>>

\* What the operations of one manager leave alone
notRecovery == <<replVars, bakVars, probeVars, lockVars, sweepVars, healthVars,
                 routeVars, foVars, extraVars>>
notReplication == <<recVars, bakVars, probeVars, lockVars, sweepVars,
                    healthVars, routeVars, foVars, extraVars>>
notBackup == <<recVars, replVars, probeVars, lockVars, sweepVars, healthVars,
               routeVars, foVars, extraVars>>
notProbe == <<recVars, bakVars, lockVars, sweepVars, healthVars, routeVars,
              foVars, extraVars>>
notLock == <<recVars, replVars, bakVars, probeVars, sweepVars, healthVars,
             routeVars, foVars, extraVars>>
notSweep == <<recVars, replVars, probeVars, lockVars, healthVars, routeVars,
              foVars, extraVars>>
notHealth == <<recVars, replVars, bakVars, probeVars, lockVars, sweepVars,
               routeVars, foVars, extraVars>>
\* What no route writes
notRoutes == <<replVars, probeVars, lockVars, sweepVars, foVars, extraVars>>
\* What initiate_failover does not write
notFailover == <<replVars, bakVars, probeVars, lockVars, sweepVars, healthVars,
                 routeVars, extraVars>>

----------------------------------------------------------------------------
(* Bounds of the model *)

MaxTime == 1
MaxCheckpoints == 1
MaxTargetObjs == 2
MaxLogs == 2
MaxSnapshots == 2
MaxDays == 2

Times == 0..MaxTime
None == "None"
\* A call's boolean return value, as the caller sees it
Returned(b) == IF b THEN "True" ELSE "False"

\* The ids a caller may name: those of the RecoveryPoints that can be
\* constructed, and one more that stays unknown
CheckpointIds == 1..(MaxCheckpoints + 1)
GraphIds == {"graph_a", "graph_b"}
\* The graph lists create_recovery_point is called with
GraphLists == {{"graph_a", "graph_b"}}
RTasks == {"t1", "t2"}

----------------------------------------------------------------------------
(* Clock *)

Tick ==
    /\ now < MaxTime
    /\ now' = now + 1

----------------------------------------------------------------------------
(* HealthValidator *)

\* What one validate_graph coroutine ends with: a HealthStatus, or an exception
\* ("raises").  The check is pluggable (the validator is injected into the
\* manager), so its outcome is an input.
HealthOutcomes == {"healthy", "degraded", "critical", "raises"}

\* validate_all_graphs: gather(..., return_exceptions=True); a check that
\* raised is reported as CRITICAL, the others keep their status.
validate_all_graphs(outcome) ==
    [g \in DOMAIN outcome |->
        IF outcome[g] = "raises" THEN "critical" ELSE outcome[g]]

\* What awaiting self._health_validator.validate_all_graphs(graphs) gives the
\* manager: a health map, or "error" when the injected validator itself fails.
ValidatorFailed == [failed |-> TRUE, health |-> << >>]
ValidatorResults(graphs) ==
    {[failed |-> FALSE, health |-> validate_all_graphs(o)] :
        o \in [graphs -> HealthOutcomes]} \cup {ValidatorFailed}

\* What a validator answer showed (recorded with the call that saw it)
Seen(v) ==
    IF v.failed THEN "failed"
    ELSE IF \E g \in DOMAIN v.health : v.health[g] = "critical" THEN "critical"
    ELSE "clear"

critical_graphs_none(health) == {}
\* critical_graphs = [gid for gid, h in health.items() if h.status == CRITICAL]
critical_graphs(health) == {g \in DOMAIN health : health[g] = "critical"}

----------------------------------------------------------------------------
(* DisasterRecoveryManager *)

IdleTask ==
    [op |-> "none", pc |-> "idle", cp |-> 0, graphs |-> {}, ts |-> 0,
     result |-> None, held |-> FALSE, seen |-> None, ran |-> FALSE]

\* DisasterRecoveryManager.__init__
RecoveryInit ==
    /\ recovery_points = << >>
    /\ failover_in_progress = FALSE
    /\ next_checkpoint = 0
    /\ rtask = [t \in RTasks |-> IdleTask]

\* get_recovery_point(checkpoint_id) is None
unknown_checkpoint(c) == c \notin DOMAIN recovery_points

\* The task t moves on; every other task stays where it is
Resume(t, r) == rtask' = [rtask EXCEPT ![t] = r]

\* The call of task r has ended: its frame is gone, the caller holds the
\* result (and the record of what the call saw and did)
Ended(r, result, seen) ==
    [IdleTask EXCEPT !.op = r.op, !.pc = "done", !.cp = r.cp,
                     !.result = result, !.seen = seen, !.ran = r.ran]

\* create_recovery_point, up to the await of validate_all_graphs: the
\* RecoveryPoint is constructed (fresh uuid4 id, timestamp = utcnow()).
CreateStart(t, gs) ==
    /\ rtask[t].pc = "idle"
    /\ next_checkpoint < MaxCheckpoints
    /\ next_checkpoint' = next_checkpoint + 1
    /\ Resume(t, [IdleTask EXCEPT !.op = "create_recovery_point",
                                  !.pc = "validating",
                                  !.cp = next_checkpoint + 1,
                                  !.graphs = gs,
                                  !.ts = now])
    /\ UNCHANGED <<now, recovery_points, failover_in_progress, notRecovery>>

\* create_recovery_point, from the validator's answer to the return or raise
CreateValidated(t, v) ==
    /\ rtask[t].op = "create_recovery_point"
    /\ rtask[t].pc = "validating"
    /\ IF v.failed
         THEN /\ Resume(t, Ended(rtask[t], "raised", Seen(v)))
              /\ UNCHANGED recovery_points
         ELSE IF critical_graphs(v.health) # {}
         THEN /\ Resume(t, Ended(rtask[t], "raised", Seen(v)))
              /\ UNCHANGED recovery_points
         ELSE /\ recovery_points' =
                    [c \in DOMAIN recovery_points \cup {rtask[t].cp} |->
                        IF c = rtask[t].cp
                          THEN [graphs |-> rtask[t].graphs,
                                timestamp |-> rtask[t].ts,
                                validated |-> TRUE,
                                validation_timestamp |-> now,
                                created_seen |-> Seen(v)]
                          ELSE recovery_points[c]]
              /\ Resume(t, Ended(rtask[t], "stored", Seen(v)))
    /\ UNCHANGED <<now, failover_in_progress, next_checkpoint, notRecovery>>

\* is_valid = len(critical_graphs) == 0
is_valid(health) == critical_graphs(health) = {}

\* The body of validate_recovery_point after the await: the stored
\* checkpoint's fields are updated, unless the validator failed.
Revalidate(c, v) ==
    IF v.failed
      THEN UNCHANGED recovery_points
      ELSE recovery_points' =
              [recovery_points EXCEPT ![c].validated = is_valid(v.health),
                                      ![c].validation_timestamp = now]

\* The value validate_recovery_point returns
Revalidated(v) == IF v.failed THEN FALSE ELSE is_valid(v.health)

\* validate_recovery_point called by a client, up to the await
ValidateStart(t, c) ==
    /\ rtask[t].pc = "idle"
    /\ IF unknown_checkpoint(c)
         THEN Resume(t, [IdleTask EXCEPT !.op = "validate_recovery_point",
                                         !.pc = "done", !.cp = c,
                                         !.result = "False"])
         ELSE Resume(t, [IdleTask EXCEPT !.op = "validate_recovery_point",
                                         !.pc = "validating", !.cp = c,
                                         !.graphs = recovery_points[c].graphs])
    /\ UNCHANGED <<now, recovery_points, failover_in_progress, next_checkpoint, notRecovery>>

\* validate_recovery_point, from the validator's answer to the return
ValidateDone(t, v) ==
    /\ rtask[t].op = "validate_recovery_point"
    /\ rtask[t].pc = "validating"
    /\ Revalidate(rtask[t].cp, v)
    /\ Resume(t, Ended(rtask[t], Returned(Revalidated(v)), Seen(v)))
    /\ UNCHANGED <<now, failover_in_progress, next_checkpoint, notRecovery>>

failover_rejected_unknown_only(c) == unknown_checkpoint(c)
\* The two early returns of initiate_failover
failover_rejected(c) == failover_in_progress \/ unknown_checkpoint(c)

flag_after_rejection_cleared == FALSE
\* The in-progress flag a rejected initiate_failover leaves behind
flag_after_rejection == failover_in_progress

\* initiate_failover, up to the await inside validate_recovery_point
FailoverStart(t, c) ==
    /\ rtask[t].pc = "idle"
    /\ IF failover_rejected(c)
         THEN /\ Resume(t, [IdleTask EXCEPT !.op = "initiate_failover",
                                            !.pc = "done", !.cp = c,
                                            !.result = "False"])
              /\ failover_in_progress' = flag_after_rejection
         ELSE /\ Resume(t, [IdleTask EXCEPT !.op = "initiate_failover",
                                            !.pc = "validating", !.cp = c,
                                            !.graphs = recovery_points[c].graphs,
                                            !.held = TRUE])
              /\ failover_in_progress' = TRUE
    /\ UNCHANGED <<now, recovery_points, next_checkpoint, notRecovery>>

failover_aborts_never(valid) == FALSE
\* if not is_valid: raise RuntimeError("Recovery point is no longer valid")
failover_aborts(valid) == ~valid

flag_cleared_on_success_only(outcome) == outcome # "ok"
\* finally: self._failover_in_progress = False
flag_after_failover(outcome) == FALSE

\* initiate_failover, from the validator's answer to the await of the
\* failover action, or to the return when the checkpoint is no longer valid
FailoverValidated(t, v) ==
    /\ rtask[t].op = "initiate_failover"
    /\ rtask[t].pc = "validating"
    /\ Revalidate(rtask[t].cp, v)
    /\ IF failover_aborts(Revalidated(v))
         THEN /\ Resume(t, Ended(rtask[t], "False", Seen(v)))
              /\ failover_in_progress' = flag_after_failover("invalid")
         ELSE /\ Resume(t, [rtask[t] EXCEPT !.pc = "failing_over",
                                            !.seen = Seen(v),
                                            !.ran = TRUE])
              /\ UNCHANGED failover_in_progress
    /\ UNCHANGED <<now, next_checkpoint, notRecovery>>

\* How the failover action and validate_recovery end: normally, with an
\* Exception (caught, False is returned), or cancelled (a BaseException: only
\* the finally clause runs and the call raises).
FailoverOutcomes == {"ok", "error", "cancelled"}

\* initiate_failover, from the failover action to the end of the call
FailoverFinish(t, outcome) ==
    /\ rtask[t].op = "initiate_failover"
    /\ rtask[t].pc = "failing_over"
    /\ Resume(t, Ended(rtask[t],
                       CASE outcome = "ok" -> "True"
                         [] outcome = "error" -> "False"
                         [] OTHER -> "cancelled",
                       rtask[t].seen))
    /\ failover_in_progress' = flag_after_failover(outcome)
    /\ UNCHANGED <<now, recovery_points, next_checkpoint, notRecovery>>

\* The caller takes the result of a finished call
RecoveryReturn(t) ==
    /\ rtask[t].pc = "done"
    /\ Resume(t, IdleTask)
    /\ UNCHANGED <<now, recovery_points, failover_in_progress, next_checkpoint, notRecovery>>

\* get_recovery_status()["failover_in_progress"]
get_recovery_status_failover == failover_in_progress

RecoveryTick == Tick /\ UNCHANGED <<recVars, notRecovery>>

NextRecovery ==
    \/ RecoveryTick
    \/ \E t \in RTasks, gs \in GraphLists : CreateStart(t, gs)
    \/ \E t \in RTasks : \E v \in ValidatorResults(rtask[t].graphs) :
           CreateValidated(t, v)
    \/ \E t \in RTasks, c \in CheckpointIds : ValidateStart(t, c)
    \/ \E t \in RTasks : \E v \in ValidatorResults(rtask[t].graphs) :
           ValidateDone(t, v)
    \/ \E t \in RTasks, c \in CheckpointIds : FailoverStart(t, c)
    \/ \E t \in RTasks : \E v \in ValidatorResults(rtask[t].graphs) :
           FailoverValidated(t, v)
    \/ \E t \in RTasks, o \in FailoverOutcomes : FailoverFinish(t, o)
    \/ \E t \in RTasks : RecoveryReturn(t)

----------------------------------------------------------------------------
(* ReplicationTarget registry and per-graph replicators *)

\* target_id is an opaque unique id (uuid4 by default): the k-th object
\* constructed gets the id k, unless the caller names an id already in use
TargetIds == 1..MaxTargetObjs
ReplGraphIds == {"g1", "g2"}
\* The graph whose snapshots are replicated
ReplicatedGraphIds == {"g1"}
BackupIds == {"b1", "b2"}

\* An Optional[datetime] that is None
NoTime == -1
\* get_target(...) is None
NoTarget == 0

\* dict[k] = v and del dict[k]
Put(f, k, v) == [x \in DOMAIN f \cup {k} |-> IF x = k THEN v ELSE f[x]]
Del(f, k) == [x \in DOMAIN f \ {k} |-> f[x]]

\* ReplicationManager.__init__
ReplicationInit ==
    /\ target_objs = << >>
    /\ mgr_targets = << >>
    /\ replicators = << >>
    /\ rcall = [pc |-> "idle"]
    /\ deregistered = {}

\* ReplicationTarget(target_id=id, enabled=en), as constructed at time t
ReplicationTarget(id, en) ==
    [target_id |-> id, enabled |-> en,
     last_health_check |-> NoTime, last_error |-> None]

add_target_ignored(r, id, ref) == r
\* GraphReplicator.add_target: the value is the replicator afterwards
add_target(r, id, ref) ==
    IF id \in DOMAIN r.targets
      THEN r
      ELSE [r EXCEPT !.targets = Put(r.targets, id, ref)]

\* GraphReplicator.remove_target: the value is the replicator afterwards
remove_target(r, id) ==
    IF id \notin DOMAIN r.targets
      THEN r
      ELSE [r EXCEPT !.targets = Del(r.targets, id)]

get_target_by_value(r, id) ==
    IF id \in DOMAIN r.targets
      THEN CHOOSE k \in 1..Len(target_objs) :
              /\ target_objs[k].target_id = id
              /\ \A j \in (k + 1)..Len(target_objs) :
                    target_objs[j].target_id # id
      ELSE NoTarget
\* GraphReplicator.get_target
get_target(r, id) ==
    IF id \in DOMAIN r.targets THEN r.targets[id] ELSE NoTarget

register_target_returns_always(id) == TRUE
\* What register_target returns for a target of this id: False when the id is
\* in the registry
register_target_returns(id) == id \notin DOMAIN mgr_targets

\* ReplicationManager.register_target(ReplicationTarget(target_id=id, enabled=en))
RegisterTarget(id, en) ==
    /\ Len(target_objs) < MaxTargetObjs
    /\ id <= Len(target_objs) + 1
    /\ LET ref == Len(target_objs) + 1 IN
        /\ target_objs' = Append(target_objs, ReplicationTarget(id, en))
        /\ IF ~register_target_returns(id)
             THEN UNCHANGED <<mgr_targets, replicators, deregistered>>
             ELSE /\ mgr_targets' = Put(mgr_targets, id, ref)
                  /\ replicators' =
                        [g \in DOMAIN replicators |->
                            add_target(replicators[g], id, ref)]
                  /\ deregistered' = deregistered \ {id}
    /\ UNCHANGED <<now, rcall, notReplication>>

\* GraphReplicator(graph_id, targets): the targets are stored by target_id
GraphReplicator(targets) == [targets |-> targets, logs |-> << >>]

\* ReplicationManager.get_graph_replicator(g)
GetGraphReplicator(g) ==
    /\ g \notin DOMAIN replicators
    /\ replicators' = Put(replicators, g, GraphReplicator(mgr_targets))
    /\ UNCHANGED <<now, target_objs, mgr_targets, rcall, deregistered,
                   notReplication>>

\* DELETE /replication/targets/{target_id}: remove_replication_target
RemoveReplicationTarget(id) ==
    /\ id \in DOMAIN mgr_targets
    /\ id \notin deregistered
    /\ replicators' =
          [g \in DOMAIN replicators |-> remove_target(replicators[g], id)]
    /\ deregistered' = deregistered \cup {id}
    /\ UNCHANGED <<now, target_objs, mgr_targets, rcall, notReplication>>

----------------------------------------------------------------------------
(* GraphReplicator.replicate_snapshot *)

RECURSIVE SortedSeq(_)
\* The elements of a set of numbers, in increasing order
SortedSeq(S) ==
    IF S = {} THEN << >>
    ELSE LET m == CHOOSE x \in S : \A y \in S : x <= y
         IN <<m>> \o SortedSeq(S \ {m})

list_targets_all(r, enabled_only) ==
    SortedSeq({r.targets[id] : id \in DOMAIN r.targets})
\* GraphReplicator.list_targets: the target objects, in the dict's order
\* (objects enter a replicator in the order they were constructed)
list_targets(r, enabled_only) ==
    SortedSeq({r.targets[id] : id \in
                  {i \in DOMAIN r.targets :
                      enabled_only => target_objs[r.targets[i]].enabled}})

\* The answers of a target's /health endpoint: a 200 response, another
\* response, no answer within the 5 s timeout, a transport error
HealthResponses == {"200", "503", "timeout", "error"}

health_status_timeout_unreachable(resp) ==
    CASE resp = "200" -> "healthy"
      [] resp = "503" -> "degraded"
      [] OTHER -> "unreachable"
\* The TargetStatus check_target_health returns for a response
health_status(resp) ==
    CASE resp = "200" -> "healthy"
      [] resp = "503" -> "degraded"
      [] resp = "timeout" -> "degraded"
      [] OTHER -> "unreachable"

\* check_target_health's writes to the target object
health_update(obj, resp) ==
    CASE resp = "200" ->
            [obj EXCEPT !.last_health_check = now, !.last_error = None]
      [] resp = "503" ->
            [obj EXCEPT !.last_health_check = now,
                        !.last_error = "Health check returned 503"]
      [] resp = "timeout" ->
            [obj EXCEPT !.last_error = "Health check timeout"]
      [] OTHER ->
            [obj EXCEPT !.last_error = "transport error"]

health_aborts_on_unknown(status) == status \in {"unreachable", "unknown"}
\* if health == TargetStatus.UNREACHABLE: raise ConnectionError
health_aborts(status) == status = "unreachable"

\* The answers of a target's upload endpoint: status 200 with success true,
\* status 200 with success false, status 201 with success true, an error
\* status, a transport error or the 5 minute timeout
UploadResponses == {"200_success", "200_failure", "201", "500", "error"}

upload_error_inverted(resp) ==
    CASE resp = "200_success" -> "Upload failed with status 200"
      [] resp = "200_failure" -> "Upload failed with status 200"
      [] resp = "error" -> "transport error"
      [] OTHER -> None
\* The exception the upload block raises for a response (None: it raises none)
upload_error(resp) ==
    CASE resp = "200_success" -> None
      [] resp = "200_failure" -> "Upload returned error"
      [] resp = "201" -> "Upload failed with status 201"
      [] resp = "500" -> "Upload failed with status 500"
      [] OTHER -> "transport error"

\* ReplicationLog(...) of one _replicate_to_target, when it is appended
ReplicationLog(target_id, started_at, status, error) ==
    [target_id |-> target_id, backup_id |-> rcall.backup_id,
     graph_id |-> rcall.graph, status |-> status,
     started_at |-> started_at, completed_at |-> now,
     error_message |-> error]

\* One _replicate_to_target coroutine of the call moves on
SubResume(i, sub) == rcall' = [rcall EXCEPT !.subs[i] = sub]

\* finally: self._logs.append(log)
AppendLog(log) ==
    replicators' = [replicators EXCEPT ![rcall.graph].logs = Append(@, log)]

\* replicate_snapshot up to the await of gather: the enabled targets are
\* listed and one _replicate_to_target coroutine is made for each
ReplicateStart(g, b) ==
    /\ rcall.pc = "idle"
    /\ g \in DOMAIN replicators
    /\ LET targets == list_targets(replicators[g], TRUE) IN
        /\ Len(replicators[g].logs) + Len(targets) <= MaxLogs
        /\ rcall' =
                 [pc |-> "gather", graph |-> g, backup_id |-> b,
                  targets |-> targets,
                  subs |-> [i \in 1..Len(targets) |->
                              [pc |-> "pending", started_at |-> NoTime,
                               probe |-> NoTarget, result |-> None,
                               health |-> None, upload |-> None]],
                  results |-> << >>,
                  enabled_at_start |->
                      {id \in DOMAIN replicators[g].targets :
                          target_objs[replicators[g].targets[id]].enabled},
                  logs_at_start |-> Len(replicators[g].logs)]
    /\ UNCHANGED <<now, target_objs, mgr_targets, replicators, deregistered,
                   notReplication>>

\* _replicate_to_target from its start to its first await: the log record is
\* made, check_target_health looks the target up by id and either returns
\* UNKNOWN at once (the upload request is then sent) or sends the probe
SubBegin(i) ==
    /\ rcall.pc = "gather"
    /\ i \in DOMAIN rcall.subs
    /\ rcall.subs[i].pc = "pending"
    /\ LET id == target_objs[rcall.targets[i]].target_id
           probe == get_target(replicators[rcall.graph], id)
       IN IF probe = NoTarget \/ ~target_objs[probe].enabled
            THEN IF health_aborts("unknown")
                   THEN /\ SubResume(i, [rcall.subs[i] EXCEPT
                                            !.pc = "done",
                                            !.started_at = now,
                                            !.result = "False"])
                        /\ AppendLog(ReplicationLog(id, now, "failed",
                                                    "unreachable"))
                   ELSE /\ SubResume(i, [rcall.subs[i] EXCEPT
                                            !.pc = "upload",
                                            !.started_at = now])
                        /\ UNCHANGED replicators
            ELSE /\ SubResume(i, [rcall.subs[i] EXCEPT !.pc = "health",
                                                       !.started_at = now,
                                                       !.probe = probe])
                 /\ UNCHANGED replicators
    /\ UNCHANGED <<now, target_objs, mgr_targets, deregistered,
                   notReplication>>

\* _replicate_to_target from the answer of the health probe to the upload
\* request, or to its end when the target is unreachable
SubHealth(i, resp) ==
    /\ rcall.pc = "gather"
    /\ i \in DOMAIN rcall.subs
    /\ rcall.subs[i].pc = "health"
    /\ target_objs' =
          [target_objs EXCEPT ![rcall.subs[i].probe] = health_update(@, resp)]
    /\ IF health_aborts(health_status(resp))
         THEN /\ SubResume(i, [rcall.subs[i] EXCEPT !.pc = "done",
                                                    !.probe = NoTarget,
                                                    !.health = resp,
                                                    !.result = "False"])
              /\ AppendLog(ReplicationLog(
                     target_objs[rcall.targets[i]].target_id,
                     rcall.subs[i].started_at, "failed", "unreachable"))
         ELSE /\ SubResume(i, [rcall.subs[i] EXCEPT !.pc = "upload",
                                                    !.probe = NoTarget,
                                                    !.health = resp])
              /\ UNCHANGED replicators
    /\ UNCHANGED <<now, mgr_targets, deregistered, notReplication>>

\* _replicate_to_target from the answer of the upload to its end
SubUpload(i, resp) ==
    /\ rcall.pc = "gather"
    /\ i \in DOMAIN rcall.subs
    /\ rcall.subs[i].pc = "upload"
    /\ SubResume(i, [rcall.subs[i] EXCEPT
                        !.pc = "done",
                        !.upload = resp,
                        !.result = Returned(upload_error(resp) = None)])
    /\ AppendLog(ReplicationLog(
           target_objs[rcall.targets[i]].target_id,
           rcall.subs[i].started_at,
           IF upload_error(resp) = None THEN "validated" ELSE "failed",
           upload_error(resp)))
    /\ UNCHANGED <<now, target_objs, mgr_targets, deregistered, notReplication>>

\* replicate_snapshot after gather: the results are zipped with the targets
ReplicateFinish ==
    /\ rcall.pc = "gather"
    /\ \A i \in DOMAIN rcall.subs : rcall.subs[i].pc = "done"
    /\ rcall' =
          [rcall EXCEPT
              !.pc = "done",
              !.results =
                  [id \in {target_objs[rcall.targets[i]].target_id :
                              i \in DOMAIN rcall.subs} |->
                      LET i == CHOOSE j \in DOMAIN rcall.subs :
                                  target_objs[rcall.targets[j]].target_id = id
                      IN rcall.subs[i].result]]
    /\ UNCHANGED <<now, target_objs, mgr_targets, replicators, deregistered,
                   notReplication>>

\* The caller takes the result map
ReplicateReturn ==
    /\ rcall.pc = "done"
    /\ rcall' = [pc |-> "idle"]
    /\ UNCHANGED <<now, target_objs, mgr_targets, replicators, deregistered,
                   notReplication>>

----------------------------------------------------------------------------
(* GraphReplicator.get_replication_status *)

\* get_replication_status looks at the get_replication_logs(limit=10)
status_log_limit == 10

RECURSIVE NewestFirst(_)
\* sorted(logs, key=started_at, reverse=True): the sort is stable
NewestFirst(logs) ==
    IF logs = << >> THEN << >>
    ELSE LET i == CHOOSE k \in DOMAIN logs :
                      /\ \A j \in DOMAIN logs :
                            logs[j].started_at <= logs[k].started_at
                      /\ \A j \in 1..(k - 1) :
                            logs[j].started_at < logs[k].started_at
         IN <<logs[i]>> \o
            NewestFirst(SubSeq(logs, 1, i - 1) \o SubSeq(logs, i + 1, Len(logs)))

\* GraphReplicator.get_replication_logs(limit)
get_replication_logs(r, limit) ==
    LET sorted == NewestFirst(r.logs)
    IN SubSeq(sorted, 1, IF Len(sorted) < limit THEN Len(sorted) ELSE limit)

\* sum(1 for l in logs if l.status == status)
CountStatus(logs, status) ==
    Cardinality({k \in DOMAIN logs : logs[k].status = status})

\* successful_ops: the entries whose status is ReplicationStatus.COMPLETED
successful_ops(logs) == CountStatus(logs, "completed")

\* GraphReplicator.get_replication_status
get_replication_status(r) ==
    LET logs == get_replication_logs(r, status_log_limit) IN
    [total_targets |-> Cardinality(DOMAIN r.targets),
     enabled_targets |->
         Cardinality({id \in DOMAIN r.targets : target_objs[r.targets[id]].enabled}),
     recent_operations |-> Len(logs),
     successful_operations |-> successful_ops(logs),
     failed_operations |-> CountStatus(logs, "failed"),
     last_replication |-> IF logs = << >> THEN NoTime ELSE logs[1].started_at]

----------------------------------------------------------------------------
(* GraphReplicator.check_target_health, called on its own *)

IdleProbe == [pc |-> "idle", graph |-> None, target_id |-> NoTarget,
              probe |-> NoTarget, resp |-> None, result |-> None]

ProbeInit == hcall = IdleProbe

\* check_target_health up to its first await: the target is looked up by id;
\* for an unknown or disabled target UNKNOWN is returned at once, otherwise
\* the GET of the target's /health endpoint is sent
CheckHealthStart(g, id) ==
    /\ hcall.pc = "idle"
    /\ g \in DOMAIN replicators
    /\ LET probe == get_target(replicators[g], id) IN
         hcall' =
            IF probe = NoTarget \/ ~target_objs[probe].enabled
              THEN [IdleProbe EXCEPT !.pc = "done", !.graph = g,
                                     !.target_id = id, !.result = "unknown"]
              ELSE [IdleProbe EXCEPT !.pc = "waiting", !.graph = g,
                                     !.target_id = id, !.probe = probe]
    /\ UNCHANGED <<now, replVars, notProbe>>

\* check_target_health from the answer of the probe to its end
CheckHealthFinish(resp) ==
    /\ hcall.pc = "waiting"
    /\ target_objs' =
          [target_objs EXCEPT ![hcall.probe] = health_update(@, resp)]
    /\ hcall' = [hcall EXCEPT !.pc = "done", !.resp = resp,
                              !.result = health_status(resp)]
    /\ UNCHANGED <<now, mgr_targets, replicators, rcall, deregistered,
                   notProbe>>

\* The caller takes the TargetStatus
CheckHealthReturn ==
    /\ hcall.pc = "done"
    /\ hcall' = IdleProbe
    /\ UNCHANGED <<now, replVars, notProbe>>

ProbeTick == Tick /\ UNCHANGED <<replVars, probeVars, notProbe>>

\* Targets are registered, replicators made and targets probed; no target is
\* removed
NextTargets ==
    \/ ProbeTick
    \/ \E id \in TargetIds, en \in BOOLEAN : RegisterTarget(id, en)
    \/ \E g \in ReplGraphIds : GetGraphReplicator(g)
    \/ \E g \in ReplGraphIds, id \in TargetIds : CheckHealthStart(g, id)
    \/ \E resp \in HealthResponses : CheckHealthFinish(resp)
    \/ CheckHealthReturn

----------------------------------------------------------------------------
(* BackupManager.register_graph and ReplicationManager.get_graph_replicator, *)
(* one statement at a time: threads are preempted between statements        *)

Managers == {"BackupManager", "ReplicationManager"}
Threads == {"c1", "c2"}
\* No instance: the dict has no entry, the call has not returned
NoInstance == 0

IdleThread == [pc |-> "idle", mgr |-> None, graph |-> None,
               local |-> NoInstance, result |-> NoInstance]

LockInit ==
    /\ glock = [m \in Managers |-> None]
    /\ ginstances = [m \in Managers |-> << >>]
    /\ gmade = [m \in Managers |-> [g \in ReplGraphIds |-> 0]]
    /\ gthread = [th \in Threads |-> IdleThread]

\* The thread th moves on
Step(th, r) == gthread' = [gthread EXCEPT ![th] = r]

\* A thread calls register_graph(g) or get_graph_replicator(g)
GetOrCreateCall(th, m, g) ==
    /\ gthread[th].pc = "idle"
    /\ Step(th, [IdleThread EXCEPT !.pc = "acquire", !.mgr = m, !.graph = g])
    /\ UNCHANGED <<now, glock, ginstances, gmade, notLock>>

lock_free_always(m) == TRUE
\* with self._lock: the lock can be taken when no thread holds it
lock_free(m) == glock[m] = None

\* with self._lock: entered
Acquire(th) ==
    /\ gthread[th].pc = "acquire"
    /\ lock_free(gthread[th].mgr)
    /\ glock' = [glock EXCEPT ![gthread[th].mgr] = th]
    /\ Step(th, [gthread[th] EXCEPT !.pc = "check"])
    /\ UNCHANGED <<now, ginstances, gmade, notLock>>

\* if graph_id in self._graph_backups: return it
\* if graph_id not in self._graph_replicators: ...
CheckPresent(th) ==
    /\ gthread[th].pc = "check"
    /\ LET m == gthread[th].mgr
           g == gthread[th].graph
       IN IF g \in DOMAIN ginstances[m]
            THEN Step(th, [gthread[th] EXCEPT !.pc = "release",
                                              !.local = ginstances[m][g]])
            ELSE Step(th, [gthread[th] EXCEPT !.pc = "construct"])
    /\ UNCHANGED <<now, glock, ginstances, gmade, notLock>>

\* The instances of manager m constructed so far
Made(m) ==
    LET RECURSIVE Sum(_)
        Sum(S) == IF S = {} THEN 0
                  ELSE LET g == CHOOSE x \in S : TRUE
                       IN gmade[m][g] + Sum(S \ {g})
    IN Sum(ReplGraphIds)

\* backup = GraphBackup(...) / replicator = GraphReplicator(...): a new object
Construct(th) ==
    /\ gthread[th].pc = "construct"
    /\ LET m == gthread[th].mgr
           g == gthread[th].graph
       IN /\ gmade' = [gmade EXCEPT ![m][g] = @ + 1]
          /\ Step(th, [gthread[th] EXCEPT !.pc = "store",
                                          !.local = Made(m) + 1])
    /\ UNCHANGED <<now, glock, ginstances, notLock>>

\* self._graph_backups[graph_id] = backup, then return backup;
\* self._graph_replicators[graph_id] = replicator, then return the dict's entry
Store(th) ==
    /\ gthread[th].pc = "store"
    /\ LET m == gthread[th].mgr
           g == gthread[th].graph
       IN ginstances' = [ginstances EXCEPT ![m] = Put(@, g, gthread[th].local)]
    /\ Step(th, [gthread[th] EXCEPT !.pc = "release"])
    /\ UNCHANGED <<now, glock, gmade, notLock>>

\* The return statement inside the with block: the value is taken (the local
\* object in register_graph, the dict's entry in get_graph_replicator), then
\* the lock is released
Release(th) ==
    /\ gthread[th].pc = "release"
    /\ LET m == gthread[th].mgr
           g == gthread[th].graph
       IN /\ Step(th, [gthread[th] EXCEPT
                          !.pc = "done",
                          !.result = IF m = "BackupManager"
                                       THEN gthread[th].local
                                       ELSE ginstances[m][g]])
          /\ glock' = [glock EXCEPT ![m] = IF @ = th THEN None ELSE @]
    /\ UNCHANGED <<now, ginstances, gmade, notLock>>

\* The caller takes the instance
GetOrCreateReturn(th) ==
    /\ gthread[th].pc = "done"
    /\ Step(th, IdleThread)
    /\ UNCHANGED <<now, glock, ginstances, gmade, notLock>>

NextGetOrCreate ==
    \/ \E th \in Threads, m \in Managers, g \in ReplGraphIds :
           GetOrCreateCall(th, m, g)
    \/ \E th \in Threads : Acquire(th)
    \/ \E th \in Threads : CheckPresent(th)
    \/ \E th \in Threads : Construct(th)
    \/ \E th \in Threads : Store(th)
    \/ \E th \in Threads : Release(th)
    \/ \E th \in Threads : GetOrCreateReturn(th)

NextReplication ==
    \/ \E en \in BOOLEAN : RegisterTarget(Len(target_objs) + 1, en)
    \/ \E g \in ReplicatedGraphIds : GetGraphReplicator(g)
    \/ \E g \in ReplicatedGraphIds, b \in BackupIds : ReplicateStart(g, b)
    \/ \E i \in 1..MaxTargetObjs : SubBegin(i)
    \/ \E i \in 1..MaxTargetObjs, resp \in HealthResponses : SubHealth(i, resp)
    \/ \E i \in 1..MaxTargetObjs, resp \in UploadResponses : SubUpload(i, resp)
    \/ ReplicateFinish
    \/ ReplicateReturn

\* The registry operations alone, over two graphs
NextRegistry ==
    \/ \E id \in TargetIds, en \in BOOLEAN : RegisterTarget(id, en)
    \/ \E g \in ReplGraphIds : GetGraphReplicator(g)
    \/ \E id \in TargetIds : RemoveReplicationTarget(id)

----------------------------------------------------------------------------
(* replicate_snapshot while the targets change *)

\* A holder of the ReplicationTarget object writes its enabled field
SetEnabled(ref, en) ==
    /\ ref \in 1..Len(target_objs)
    /\ target_objs[ref].enabled # en
    /\ target_objs' = [target_objs EXCEPT ![ref].enabled = en]
    /\ UNCHANGED <<now, mgr_targets, replicators, rcall, deregistered,
                   notReplication>>

\* One replication at a time: targets are registered at any time, and
\* removed, enabled and disabled while a replication is in flight
NextInFlight ==
    \/ \E en \in BOOLEAN : RegisterTarget(Len(target_objs) + 1, en)
    \/ \E g \in ReplicatedGraphIds : GetGraphReplicator(g)
    \/ \E id \in TargetIds :
           rcall.pc = "gather" /\ RemoveReplicationTarget(id)
    \/ \E ref \in TargetIds, en \in BOOLEAN :
           rcall.pc = "gather" /\ SetEnabled(ref, en)
    \/ \E g \in ReplicatedGraphIds : ReplicateStart(g, "b1")
    \/ \E i \in 1..MaxTargetObjs : SubBegin(i)
    \/ \E i \in 1..MaxTargetObjs, resp \in {"200", "error"} : SubHealth(i, resp)
    \/ \E i \in 1..MaxTargetObjs : SubUpload(i, "200_success")
    \/ ReplicateFinish
    \/ ReplicateReturn

----------------------------------------------------------------------------
(* replicate_snapshot, cancelled while it awaits gather *)

\* The coroutines of the call that are suspended in an await, in task order
SuspendedSubs ==
    SelectSeq([i \in DOMAIN rcall.subs |-> i],
              LAMBDA i : rcall.subs[i].pc \in {"health", "upload"})

\* The record a cancelled _replicate_to_target appends: CancelledError is not
\* an Exception, so the except clause is skipped and the finally clause
\* appends the record as it was constructed
CancelledLog(i) ==
    [ReplicationLog(target_objs[rcall.targets[i]].target_id,
                    rcall.subs[i].started_at, "in_progress", None)
        EXCEPT !.completed_at = NoTime]

\* The task that awaits replicate_snapshot is cancelled: gather cancels every
\* coroutine that has not ended, a suspended one runs its finally clause, one
\* that never started runs nothing, and the caller gets CancelledError
ReplicateCancel ==
    /\ rcall.pc = "gather"
    /\ replicators' =
          [replicators EXCEPT ![rcall.graph].logs =
              @ \o [k \in 1..Len(SuspendedSubs) |->
                       CancelledLog(SuspendedSubs[k])]]
    /\ rcall' = [pc |-> "idle"]
    /\ UNCHANGED <<now, target_objs, mgr_targets, deregistered, notReplication>>

\* One replication of one backup at a time, which may be cancelled, while
\* the clock runs
NextCancel ==
    \/ ProbeTick
    \/ RegisterTarget(Len(target_objs) + 1, TRUE)
    \/ \E g \in ReplicatedGraphIds : GetGraphReplicator(g)
    \/ \E g \in ReplicatedGraphIds : ReplicateStart(g, "b1")
    \/ \E i \in 1..MaxTargetObjs : SubBegin(i)
    \/ \E i \in 1..MaxTargetObjs, resp \in {"200", "error"} : SubHealth(i, resp)
    \/ \E i \in 1..MaxTargetObjs, resp \in {"200_success", "500"} :
           SubUpload(i, resp)
    \/ ReplicateCancel
    \/ ReplicateFinish
    \/ ReplicateReturn

----------------------------------------------------------------------------
(* GraphBackup: snapshots of a graph's working directory *)

\* GraphBackup(graph_id, storage_path, retention_days=1): the clock counts days
retention_days == 1

\* A file of a directory: its path relative to the directory and its bytes,
\* both sequences of character codes
File(path, data) == [path |-> path, data |-> data]
\* A directory on disk is the set of its files; Absent is a path that does
\* not exist
Dir(files) == [exists |-> TRUE, files |-> files]
Absent == [exists |-> FALSE, files |-> {}]

\* The working directory when the GraphBackup is made: the file "a" holding "b"
InitialWorkingDir == Dir({File(<<1>>, <<2>>)})
\* The contents the working directory takes: that, and the two files "a"
\* (empty) and "ab" holding "b"
WorkingDirs ==
    { InitialWorkingDir,
      Dir({File(<<1>>, << >>), File(<<1, 2>>, <<2>>)}) }

RECURSIVE PathBefore(_, _)
\* p < q in the order sorted() puts the paths in
PathBefore(p, q) ==
    IF p = << >> THEN q # << >>
    ELSE IF q = << >> THEN FALSE
    ELSE IF Head(p) # Head(q) THEN Head(p) < Head(q)
    ELSE PathBefore(Tail(p), Tail(q))

RECURSIVE HashStream(_)
\* The bytes the hasher is fed: for every file in sorted order its relative
\* path, then its contents
HashStream(files) ==
    IF files = {} THEN << >>
    ELSE LET f == CHOOSE x \in files :
                      \A y \in files \ {x} : PathBefore(x.path, y.path)
         IN f.path \o f.data \o HashStream(files \ {f})

\* GraphBackup._calculate_dir_hash: the sha256 digest stands for the byte
\* stream it was computed from; rglob over a missing directory yields nothing
calculate_dir_hash(dir) == HashStream(dir.files)

\* The ids a caller may name: those of the snapshots that can be made, and
\* one more that stays unknown
SnapshotIds == 1..(MaxSnapshots + 1)

\* No BackupSnapshot object was constructed by the call
NoSnapshot == [status |-> None, error_message |-> None]

IdleCall == [op |-> None, pc |-> "idle", sid |-> 0, hash |-> << >>,
             result |-> None, snapshot |-> NoSnapshot]
CallEnded(op, sid, result) ==
    [op |-> op, pc |-> "done", sid |-> sid, hash |-> << >>, result |-> result,
     snapshot |-> NoSnapshot]

failed_snapshot_unmarked(snap, error) == snap
\* except Exception as e: snapshot.status = FAILED; snapshot.error_message =
\* str(e)
failed_snapshot(snap, error) ==
    [snap EXCEPT !.status = "failed", !.error_message = error]

\* The graph the GraphBackup was made for, the one registered with the
\* BackupManager
BackupGraphId == "g1"

completed_snapshot_without_retention(hash) ==
    [status |-> "completed", graph_id |-> BackupGraphId, data_hash |-> hash,
     retention_until |-> NoTime]
\* The BackupSnapshot create_snapshot stores in the catalog: constructed with
\* graph_id = self.graph_id, then given its hash, its retention and, last,
\* the status COMPLETED
completed_snapshot(hash) ==
    [status |-> "completed", graph_id |-> BackupGraphId, data_hash |-> hash,
     retention_until |-> now + store_retention_days]

\* GraphBackup.__init__, over an existing working directory
BackupInit ==
    /\ snapshots = << >>
    /\ next_snapshot = 1
    /\ store = << >>
    /\ working_dir = InitialWorkingDir
    /\ pre_restore = << >>
    /\ bcall = IdleCall
    /\ bret = [op |-> None, ok |-> FALSE, count |-> 0]

is_expired_inclusive(snap) == now >= snap.retention_until
\* BackupSnapshot.is_expired (retention_until is set on every catalog entry)
is_expired(snap) == now > snap.retention_until

snapshot_is_valid_unexpiring(sid) ==
    /\ snapshots[sid].status = "completed"
    /\ store[sid].exists
\* BackupSnapshot.is_valid of the catalog entry sid
snapshot_is_valid(sid) ==
    /\ snapshots[sid].status = "completed"
    /\ store[sid].exists
    /\ ~is_expired(snapshots[sid])

\* create_snapshot up to the await of the copy: the source is checked, the
\* BackupSnapshot is constructed and its checkpoint directory prepared
CreateSnapshotStart ==
    /\ bcall.pc = "idle"
    /\ next_snapshot <= MaxSnapshots
    /\ IF ~working_dir.exists
         THEN /\ bcall' = CallEnded("create_snapshot", 0, "FileNotFoundError")
              /\ UNCHANGED <<next_snapshot, store>>
         ELSE /\ bcall' = [IdleCall EXCEPT !.op = "create_snapshot",
                                           !.pc = "copying",
                                           !.sid = next_snapshot,
                                           !.snapshot.status = "in_progress"]
              /\ next_snapshot' = next_snapshot + 1
              /\ store' = Put(store, next_snapshot, Absent)
    /\ UNCHANGED <<now, snapshots, working_dir, pre_restore, bret, notBackup>>

\* What a copytree run in a worker thread ends with
CopyOutcomes == {"ok", "error"}

\* create_snapshot from the copy to its end: copytree copies the working
\* directory as it is when it runs, then size, hash and retention are set and
\* the snapshot enters the catalog; when the copy raises so does the call
CreateSnapshotFinish(outcome) ==
    /\ bcall.op = "create_snapshot"
    /\ bcall.pc = "copying"
    /\ IF outcome = "error" \/ ~working_dir.exists \/ store[bcall.sid].exists
         THEN /\ bcall' =
                    [CallEnded("create_snapshot", bcall.sid, "Error") EXCEPT
                        !.snapshot = failed_snapshot(bcall.snapshot,
                                                     "copy failed")]
              /\ UNCHANGED <<snapshots, store>>
         ELSE /\ store' = [store EXCEPT ![bcall.sid] = working_dir]
              /\ snapshots' =
                    Put(snapshots, bcall.sid,
                        completed_snapshot(calculate_dir_hash(working_dir)))
              /\ bcall' =
                    [CallEnded("create_snapshot", bcall.sid, "snapshot") EXCEPT
                        !.snapshot.status = "completed"]
    /\ UNCHANGED <<now, next_snapshot, working_dir, pre_restore, bret, notBackup>>

\* shutil.move(target_dir, backup_dir): a rename when backup_dir does not
\* exist, a move into backup_dir when it does, an error when backup_dir
\* already holds a directory of that name
MoveAsideFails == Len(pre_restore) = 2

\* restore_snapshot up to the await of the copy: the snapshot is looked up and
\* checked, the target directory is moved aside
RestoreSnapshotStart(sid) ==
    /\ bcall.pc = "idle"
    /\ IF sid \notin DOMAIN snapshots
         THEN /\ bcall' = CallEnded("restore_snapshot", sid, "ValueError")
              /\ UNCHANGED <<working_dir, pre_restore>>
         ELSE IF ~snapshot_is_valid(sid)
         THEN /\ bcall' = CallEnded("restore_snapshot", sid, "ValueError")
              /\ UNCHANGED <<working_dir, pre_restore>>
         ELSE IF working_dir.exists /\ MoveAsideFails
         THEN /\ bcall' = CallEnded("restore_snapshot", sid, "Error")
              /\ UNCHANGED <<working_dir, pre_restore>>
         ELSE /\ bcall' = [IdleCall EXCEPT !.op = "restore_snapshot",
                                           !.pc = "copying",
                                           !.sid = sid,
                                           !.hash = snapshots[sid].data_hash]
              /\ IF working_dir.exists
                   THEN /\ pre_restore' = Append(pre_restore, working_dir)
                        /\ working_dir' = Absent
                   ELSE UNCHANGED <<working_dir, pre_restore>>
    /\ UNCHANGED <<now, snapshots, next_snapshot, store, bret, notBackup>>

\* The worker thread runs copytree(checkpoint_path, target_dir)
RestoreCopy(outcome) ==
    /\ bcall.op = "restore_snapshot"
    /\ bcall.pc = "copying"
    /\ IF outcome = "error" \/ ~store[bcall.sid].exists \/ working_dir.exists
         THEN /\ bcall' = [bcall EXCEPT !.pc = "copy_failed"]
              /\ UNCHANGED working_dir
         ELSE /\ bcall' = [bcall EXCEPT !.pc = "copied"]
              /\ working_dir' = store[bcall.sid]
    /\ UNCHANGED <<now, snapshots, next_snapshot, store, pre_restore, bret,
                   notBackup>>

restore_hash_mismatch_ignored(restored_hash, data_hash) == FALSE
\* if restored_hash != snapshot.data_hash: raise IOError
restore_hash_mismatch(restored_hash, data_hash) == restored_hash # data_hash

\* restore_snapshot from the end of the copy to its end: the target
\* directory is hashed as it is now and compared with the stored hash
RestoreSnapshotFinish ==
    /\ bcall.op = "restore_snapshot"
    /\ bcall.pc \in {"copied", "copy_failed"}
    /\ IF bcall.pc = "copy_failed"
         THEN /\ bcall' = CallEnded("restore_snapshot", bcall.sid, "Error")
              /\ UNCHANGED snapshots
         ELSE IF restore_hash_mismatch(calculate_dir_hash(working_dir),
                                       bcall.hash)
         THEN /\ bcall' = CallEnded("restore_snapshot", bcall.sid,
                                    "IntegrityError")
              /\ UNCHANGED snapshots
         ELSE /\ bcall' = [CallEnded("restore_snapshot", bcall.sid, "True")
                              EXCEPT !.hash = bcall.hash]
              /\ snapshots' =
                    IF bcall.sid \in DOMAIN snapshots
                      THEN [snapshots EXCEPT ![bcall.sid].status = "restored"]
                      ELSE snapshots
    /\ UNCHANGED <<now, next_snapshot, store, working_dir, pre_restore, bret,
                   notBackup>>

RECURSIVE Descending(_)
\* The elements of a set of numbers, in decreasing order
Descending(S) ==
    IF S = {} THEN << >>
    ELSE LET m == CHOOSE x \in S : \A y \in S : x >= y
         IN <<m>> \o Descending(S \ {m})

\* GraphBackup.list_snapshots: the catalog's snapshots, newest first (ids
\* are given in the order of construction)
list_snapshots == Descending(DOMAIN snapshots)

\* get_storage_stats()["total_snapshots"]
total_snapshots == Len(list_snapshots)

\* The caller takes the result of a finished call
BackupReturn ==
    /\ bcall.pc = "done"
    /\ bcall' = IdleCall
    /\ UNCHANGED <<now, snapshots, next_snapshot, store, working_dir,
                   pre_restore, bret, notBackup>>

delete_succeeds_despite_error(sid, failing) == sid \in DOMAIN snapshots
\* delete_snapshot(sid) returns True: the snapshot is in the catalog and
\* rmtree, when its checkpoint directory exists, does not raise
delete_succeeds(sid, failing) ==
    /\ sid \in DOMAIN snapshots
    /\ ~(store[sid].exists /\ sid \in failing)

\* The catalog and the disk after the snapshots of the set deleted are deleted
Deleted(deleted) ==
    /\ snapshots' = [sid \in DOMAIN snapshots \ deleted |-> snapshots[sid]]
    /\ store' = [sid \in DOMAIN store |->
                    IF sid \in deleted THEN Absent ELSE store[sid]]

\* delete_snapshot(sid); rmtree raises for the snapshots of the set failing
DeleteSnapshot(sid, failing) ==
    /\ Deleted({s \in {sid} : delete_succeeds(s, failing)})
    /\ bret' = [op |-> "delete_snapshot",
                ok |-> delete_succeeds(sid, failing),
                count |-> 0]
    /\ UNCHANGED <<now, next_snapshot, working_dir, pre_restore, bcall,
                   notBackup>>

\* cleanup_old_snapshots(); rmtree raises for the snapshots of the set failing.
\* No await of the call suspends, so it is one step.
CleanupOldSnapshots(failing) ==
    LET expired_ids == {sid \in DOMAIN snapshots : is_expired(snapshots[sid])}
        deleted == {sid \in expired_ids : delete_succeeds(sid, failing)}
    IN /\ Deleted(deleted)
       /\ bret' = [op |-> "cleanup_old_snapshots",
                   ok |-> TRUE,
                   count |-> Cardinality(deleted)]
       /\ UNCHANGED <<now, next_snapshot, working_dir, pre_restore, bcall,
                      notBackup>>

\* The graph's owner rewrites the working directory
WriteWorkingDir(d) ==
    /\ working_dir.exists
    /\ d # working_dir
    /\ working_dir' = d
    /\ UNCHANGED <<now, snapshots, next_snapshot, store, pre_restore, bcall,
                   bret, notBackup>>

\* The stored data of a snapshot changes on disk after it was written
CorruptSnapshot(sid, d) ==
    /\ sid \in DOMAIN snapshots
    /\ store[sid].exists
    /\ d # store[sid]
    /\ store' = [store EXCEPT ![sid] = d]
    /\ UNCHANGED <<now, snapshots, next_snapshot, working_dir, pre_restore,
                   bcall, bret, notBackup>>

\* The checkpoint directory of a snapshot is removed from the disk by another
\* hand than delete_snapshot (checkpoint_path.exists() is then false)
LoseSnapshot(sid) ==
    /\ sid \in DOMAIN snapshots
    /\ store[sid].exists
    /\ store' = [store EXCEPT ![sid] = Absent]
    /\ UNCHANGED <<now, snapshots, next_snapshot, working_dir, pre_restore,
                   bcall, bret, notBackup>>

\* A day passes
BackupTick ==
    /\ now < MaxDays
    /\ now' = now + 1
    /\ UNCHANGED <<bakVars, notBackup>>

\* Snapshots are made, restored and deleted while the working directory and
\* the stored data change
NextRestore ==
    \/ CreateSnapshotStart
    \/ \E o \in CopyOutcomes : CreateSnapshotFinish(o)
    \/ \E sid \in SnapshotIds : RestoreSnapshotStart(sid)
    \/ \E o \in CopyOutcomes : RestoreCopy(o)
    \/ RestoreSnapshotFinish
    \/ BackupReturn
    \/ \E sid \in SnapshotIds : \E failing \in SUBSET {sid} :
           DeleteSnapshot(sid, failing)
    \/ \E d \in WorkingDirs : WriteWorkingDir(d)
    \/ \E sid \in 1..MaxSnapshots, d \in WorkingDirs : CorruptSnapshot(sid, d)

\* Snapshots are made and restored as the days pass, while snapshots are
\* deleted and stored data is lost
NextRestoreGuard ==
    \/ BackupTick
    \/ CreateSnapshotStart
    \/ \E o \in CopyOutcomes : CreateSnapshotFinish(o)
    \/ \E sid \in SnapshotIds : RestoreSnapshotStart(sid)
    \/ \E o \in CopyOutcomes : RestoreCopy(o)
    \/ RestoreSnapshotFinish
    \/ BackupReturn
    \/ \E sid \in SnapshotIds : \E failing \in SUBSET {sid} :
           DeleteSnapshot(sid, failing)
    \/ \E sid \in 1..MaxSnapshots : LoseSnapshot(sid)

\* Snapshots are made, expire and are removed as the days pass
NextRetention ==
    \/ BackupTick
    \/ CreateSnapshotStart
    \/ \E o \in CopyOutcomes : CreateSnapshotFinish(o)
    \/ BackupReturn
    \/ \E sid \in SnapshotIds : \E failing \in SUBSET {sid} :
           DeleteSnapshot(sid, failing)
    \/ \E failing \in SUBSET (1..MaxSnapshots) : CleanupOldSnapshots(failing)

----------------------------------------------------------------------------
(* GraphBackup._calculate_dir_hash over two directory trees *)

\* The files a hashed tree is made of: the paths "a" and "ab", the contents
\* "" and "b"
HashedFiles ==
    {File(p, d) : p \in {<<1>>, <<1, 2>>}, d \in {<< >>, <<2>>}}
\* The trees: a path names at most one file
HashedTrees ==
    {Dir(fs) : fs \in {S \in SUBSET HashedFiles :
                          \A f, g \in S : f.path = g.path => f = g}}
Trees == {"left", "right"}
\* No digest was computed for the tree as it is
NoDigest == [done |-> FALSE, stream |-> << >>]

HashInit ==
    /\ htree = [k \in Trees |-> Dir({})]
    /\ hdigest = [k \in Trees |-> NoDigest]

notHash == <<recVars, replVars, bakVars, probeVars, lockVars, sweepVars,
             healthVars, routeVars, foVars, restoreVars, orderVars,
             deleteVars, managerVars, poolVars,
       graphVars>>

\* The files of a tree are written
WriteTree(k, d) ==
    /\ htree[k] # d
    /\ htree' = [htree EXCEPT ![k] = d]
    /\ hdigest' = [hdigest EXCEPT ![k] = NoDigest]
    /\ UNCHANGED <<now, notHash>>

\* _calculate_dir_hash(tree)
CalculateDirHash(k) ==
    /\ ~hdigest[k].done
    /\ hdigest' = [hdigest EXCEPT
                      ![k] = [done |-> TRUE,
                              stream |-> calculate_dir_hash(htree[k])]]
    /\ UNCHANGED <<now, htree, notHash>>

NextHash ==
    \/ \E k \in Trees, d \in HashedTrees : WriteTree(k, d)
    \/ \E k \in Trees : CalculateDirHash(k)

----------------------------------------------------------------------------
(* GraphBackup.restore_snapshot, called by two tasks of the event loop *)

Restorers == {"r1", "r2"}
\* The directories the tasks restore to
TargetDirs == {"d1", "d2"}

IdleRestore == [pc |-> "idle", sid |-> 0, target |-> None, hash |-> << >>,
                result |-> None]
RestoreEnded(sid, d, result) ==
    [pc |-> "done", sid |-> sid, target |-> d, hash |-> << >>,
     result |-> result]

RestoresInit ==
    /\ tcall = [c \in Restorers |-> IdleRestore]
    /\ tdirs = [d \in TargetDirs |-> InitialWorkingDir]
    /\ tpre = [d \in TargetDirs |-> << >>]
    /\ tsuccess = [sid \in SnapshotIds |-> 0]

notRestores == <<recVars, replVars, probeVars, lockVars, sweepVars,
                 healthVars, routeVars, foVars, hashVars, orderVars,
                 deleteVars, managerVars, poolVars,
       graphVars>>

\* restore_snapshot(sid, d) up to the await of the copy: the snapshot is
\* looked up and checked, the target directory is moved aside
TaskRestoreStart(c, sid, d) ==
    /\ tcall[c].pc = "idle"
    /\ IF sid \notin DOMAIN snapshots
         THEN /\ tcall' = [tcall EXCEPT ![c] = RestoreEnded(sid, d, "ValueError")]
              /\ UNCHANGED <<tdirs, tpre>>
         ELSE IF ~snapshot_is_valid(sid)
         THEN /\ tcall' = [tcall EXCEPT ![c] = RestoreEnded(sid, d, "ValueError")]
              /\ UNCHANGED <<tdirs, tpre>>
         ELSE IF tdirs[d].exists /\ Len(tpre[d]) = 2
         THEN /\ tcall' = [tcall EXCEPT ![c] = RestoreEnded(sid, d, "Error")]
              /\ UNCHANGED <<tdirs, tpre>>
         ELSE /\ tcall' = [tcall EXCEPT
                              ![c] = [IdleRestore EXCEPT
                                         !.pc = "copying",
                                         !.sid = sid,
                                         !.target = d,
                                         !.hash = snapshots[sid].data_hash]]
              /\ IF tdirs[d].exists
                   THEN /\ tpre' = [tpre EXCEPT ![d] = Append(@, tdirs[d])]
                        /\ tdirs' = [tdirs EXCEPT ![d] = Absent]
                   ELSE UNCHANGED <<tdirs, tpre>>
    /\ UNCHANGED <<now, bakVars, tsuccess, notRestores>>

\* The worker thread runs copytree(checkpoint_path, target_dir)
TaskRestoreCopy(c, outcome) ==
    /\ tcall[c].pc = "copying"
    /\ LET d == tcall[c].target IN
         IF outcome = "error" \/ ~store[tcall[c].sid].exists \/ tdirs[d].exists
           THEN /\ tcall' = [tcall EXCEPT ![c].pc = "copy_failed"]
                /\ UNCHANGED tdirs
           ELSE /\ tcall' = [tcall EXCEPT ![c].pc = "copied"]
                /\ tdirs' = [tdirs EXCEPT ![d] = store[tcall[c].sid]]
    /\ UNCHANGED <<now, bakVars, tpre, tsuccess, notRestores>>

\* restore_snapshot from the end of the copy to its end: the target
\* directory is hashed and compared, the snapshot is marked RESTORED
TaskRestoreFinish(c) ==
    /\ tcall[c].pc \in {"copied", "copy_failed"}
    /\ LET sid == tcall[c].sid
           d == tcall[c].target
       IN IF tcall[c].pc = "copy_failed"
            THEN /\ tcall' = [tcall EXCEPT ![c] = RestoreEnded(sid, d, "Error")]
                 /\ UNCHANGED <<snapshots, tsuccess>>
            ELSE IF restore_hash_mismatch(calculate_dir_hash(tdirs[d]),
                                          tcall[c].hash)
            THEN /\ tcall' = [tcall EXCEPT
                                 ![c] = RestoreEnded(sid, d, "IntegrityError")]
                 /\ UNCHANGED <<snapshots, tsuccess>>
            ELSE /\ tcall' = [tcall EXCEPT ![c] = RestoreEnded(sid, d, "True")]
                 /\ snapshots' =
                       IF sid \in DOMAIN snapshots
                         THEN [snapshots EXCEPT ![sid].status = "restored"]
                         ELSE snapshots
                 /\ tsuccess' = [tsuccess EXCEPT ![sid] = @ + 1]
    /\ UNCHANGED <<now, next_snapshot, store, working_dir, pre_restore, bcall,
                   bret, tdirs, tpre, notRestores>>

\* The caller takes the result of a finished call
TaskRestoreReturn(c) ==
    /\ tcall[c].pc = "done"
    /\ tcall' = [tcall EXCEPT ![c] = IdleRestore]
    /\ UNCHANGED <<now, bakVars, tdirs, tpre, tsuccess, notRestores>>

\* Snapshots are made and two tasks restore them
NextRestores ==
    \/ CreateSnapshotStart
    \/ \E o \in CopyOutcomes : CreateSnapshotFinish(o)
    \/ BackupReturn
    \/ \E c \in Restorers, sid \in 1..MaxSnapshots, d \in TargetDirs :
           TaskRestoreStart(c, sid, d)
    \/ \E c \in Restorers, o \in CopyOutcomes : TaskRestoreCopy(c, o)
    \/ \E c \in Restorers : TaskRestoreFinish(c)
    \/ \E c \in Restorers : TaskRestoreReturn(c)

----------------------------------------------------------------------------
(* The locks of the ReplicationManager and of its GraphReplicators: every *)
(* operation is the sequence of its lock and await steps, run by threads   *)
(* that are preempted between steps                                        *)

\* ReplicationManager._lock; the lock of a GraphReplicator is named by its graph
ManagerLock == "manager"
Locks == {ManagerLock} \cup ReplGraphIds

\* with self._lock: enter, leave; an await that suspends; the loop of
\* register_target over the replicators; the store of a new replicator
Enter(l) == [kind |-> "acquire", lock |-> l]
Leave(l) == [kind |-> "release", lock |-> l]
Await == [kind |-> "await", lock |-> None]
ForEachReplicator == [kind |-> "for_each_replicator", lock |-> None]
StoreReplicator(g) == [kind |-> "store_replicator", lock |-> g]

ManagerOperations == {"register_target", "get_graph_replicator", "list_targets"}
ReplicatorOperations ==
    {"add_target", "remove_target", "replicator_list_targets",
     "get_replication_logs", "_replicate_to_target"}

lock_steps_replicator_first(op, g) ==
    CASE op = "register_target" ->
           <<Enter(ManagerLock), ForEachReplicator, Leave(ManagerLock)>>
      [] op = "get_graph_replicator" ->
           <<Enter(ManagerLock), StoreReplicator(g), Leave(ManagerLock)>>
      [] op = "list_targets" -> << >>
      [] op = "_replicate_to_target" -> <<Await, Await, Enter(g), Leave(g)>>
      [] op = "remove_target" ->
           <<Enter(g), Enter(ManagerLock), Leave(ManagerLock), Leave(g)>>
      [] OTHER -> <<Enter(g), Leave(g)>>
\* The lock and await steps of an operation on the manager or on the
\* replicator of graph g, in program order
lock_steps(op, g) ==
    CASE op = "register_target" ->
           <<Enter(ManagerLock), ForEachReplicator, Leave(ManagerLock)>>
      [] op = "get_graph_replicator" ->
           <<Enter(ManagerLock), StoreReplicator(g), Leave(ManagerLock)>>
      [] op = "list_targets" -> << >>
      [] op = "_replicate_to_target" -> <<Await, Await, Enter(g), Leave(g)>>
      [] OTHER -> <<Enter(g), Leave(g)>>

RECURSIVE AddTargetToEach(_)
\* for replicator in self._graph_replicators.values(): replicator.add_target(...)
AddTargetToEach(gs) ==
    IF gs = {} THEN << >>
    ELSE LET g == CHOOSE x \in gs : TRUE
         IN lock_steps("add_target", g) \o AddTargetToEach(gs \ {g})

IdleLockThread == [op |-> None, steps |-> << >>]

LockOrderInit ==
    /\ lock_holder = [l \in Locks |-> None]
    /\ lock_thread = [th \in Threads |-> IdleLockThread]
    /\ lock_replicators = {}

notOrder == <<recVars, replVars, bakVars, probeVars, lockVars, sweepVars,
              healthVars, routeVars, foVars, hashVars, restoreVars,
              deleteVars, managerVars, poolVars,
       graphVars>>

\* A thread calls an operation; one of a replicator needs the replicator
LockCall(th, op, g) ==
    /\ lock_thread[th].op = None
    /\ op \in ReplicatorOperations => g \in lock_replicators
    /\ lock_thread' = [lock_thread EXCEPT
                          ![th] = [op |-> op, steps |-> lock_steps(op, g)]]
    /\ UNCHANGED <<now, lock_holder, lock_replicators, notOrder>>

\* The step the thread is at
NextStep(th) == Head(lock_thread[th].steps)
Advance(th, steps) ==
    lock_thread' = [lock_thread EXCEPT ![th].steps = steps]

\* threading.Lock.acquire: the thread waits while any thread, itself
\* included, holds the lock
LockEnter(th) ==
    /\ lock_thread[th].steps # << >>
    /\ NextStep(th).kind = "acquire"
    /\ lock_holder[NextStep(th).lock] = None
    /\ lock_holder' = [lock_holder EXCEPT ![NextStep(th).lock] = th]
    /\ Advance(th, Tail(lock_thread[th].steps))
    /\ UNCHANGED <<now, lock_replicators, notOrder>>

LockLeave(th) ==
    /\ lock_thread[th].steps # << >>
    /\ NextStep(th).kind = "release"
    /\ lock_holder' = [lock_holder EXCEPT ![NextStep(th).lock] = None]
    /\ Advance(th, Tail(lock_thread[th].steps))
    /\ UNCHANGED <<now, lock_replicators, notOrder>>

\* The awaited health probe or upload answers
LockAwait(th) ==
    /\ lock_thread[th].steps # << >>
    /\ NextStep(th).kind = "await"
    /\ Advance(th, Tail(lock_thread[th].steps))
    /\ UNCHANGED <<now, lock_holder, lock_replicators, notOrder>>

\* register_target reaches its loop: add_target of every replicator there is
LockForEachReplicator(th) ==
    /\ lock_thread[th].steps # << >>
    /\ NextStep(th).kind = "for_each_replicator"
    /\ Advance(th, AddTargetToEach(lock_replicators)
                      \o Tail(lock_thread[th].steps))
    /\ UNCHANGED <<now, lock_holder, lock_replicators, notOrder>>

\* get_graph_replicator stores the replicator it made, if there was none
LockStoreReplicator(th) ==
    /\ lock_thread[th].steps # << >>
    /\ NextStep(th).kind = "store_replicator"
    /\ lock_replicators' = lock_replicators \cup {NextStep(th).lock}
    /\ Advance(th, Tail(lock_thread[th].steps))
    /\ UNCHANGED <<now, lock_holder, notOrder>>

\* The operation returns
LockReturn(th) ==
    /\ lock_thread[th].op # None
    /\ lock_thread[th].steps = << >>
    /\ lock_thread' = [lock_thread EXCEPT ![th] = IdleLockThread]
    /\ UNCHANGED <<now, lock_holder, lock_replicators, notOrder>>

NextLockOrder ==
    \/ \E th \in Threads, g \in ReplGraphIds :
           \E op \in ManagerOperations \cup ReplicatorOperations :
               LockCall(th, op, g)
    \/ \E th \in Threads : LockEnter(th)
    \/ \E th \in Threads : LockLeave(th)
    \/ \E th \in Threads : LockAwait(th)
    \/ \E th \in Threads : LockForEachReplicator(th)
    \/ \E th \in Threads : LockStoreReplicator(th)
    \/ \E th \in Threads : LockReturn(th)

----------------------------------------------------------------------------
(* GraphBackup.delete_snapshot and cleanup_old_snapshots, one statement at *)
(* a time: threads are preempted between statements                        *)

IdleDelete == [op |-> None, pc |-> "idle", sid |-> 0, expired_ids |-> << >>,
               deleted_count |-> 0, result |-> None]

DeletesInit ==
    /\ dthread = [th \in Threads |-> IdleDelete]
    /\ dtrue = [sid \in SnapshotIds |-> 0]

notDeletes == <<recVars, replVars, probeVars, lockVars, sweepVars,
                healthVars, routeVars, foVars, hashVars, restoreVars,
                orderVars, managerVars, poolVars,
       graphVars>>

delete_result_reraised(error) == IF error = None THEN "True" ELSE error
\* What delete_snapshot ends with after its try block: True, or False when
\* `except Exception` caught an error
delete_result(error) == IF error = None THEN "True" ELSE "False"

\* The thread's delete_snapshot ends with the result: a call of its own
\* returns, the loop of cleanup_old_snapshots counts a True and goes on
DeleteEnds(th, result) ==
    /\ dthread' =
          [dthread EXCEPT
              ![th] = IF @.op = "delete_snapshot"
                        THEN [@ EXCEPT !.pc = "done", !.result = result]
                        ELSE [@ EXCEPT
                                 !.pc = "loop",
                                 !.result = IF result \in {"True", "False"}
                                              THEN @ ELSE result,
                                 !.deleted_count =
                                     IF result = "True" THEN @ + 1 ELSE @]]
    /\ dtrue' = IF result = "True"
                  THEN [dtrue EXCEPT ![dthread[th].sid] = @ + 1]
                  ELSE dtrue

\* A thread calls delete_snapshot(sid), with an id that create_snapshot has
\* returned or with the id that no snapshot has
ThreadDeleteCall(th, sid) ==
    /\ dthread[th].pc = "idle"
    /\ \/ sid = MaxSnapshots + 1
       \/ /\ sid \in DOMAIN store
          /\ ~(bcall.pc = "copying" /\ bcall.sid = sid)
    /\ dthread' = [dthread EXCEPT
                      ![th] = [IdleDelete EXCEPT !.op = "delete_snapshot",
                                                 !.pc = "lookup",
                                                 !.sid = sid]]
    /\ UNCHANGED <<now, bakVars, dtrue, notDeletes>>

\* A thread calls cleanup_old_snapshots(): the expired ids are listed under
\* the lock
ThreadCleanupCall(th) ==
    /\ dthread[th].pc = "idle"
    /\ dthread' =
          [dthread EXCEPT
              ![th] = [IdleDelete EXCEPT
                          !.op = "cleanup_old_snapshots",
                          !.pc = "loop",
                          !.expired_ids =
                              SortedSeq({sid \in DOMAIN snapshots :
                                            is_expired(snapshots[sid])})]]
    /\ UNCHANGED <<now, bakVars, dtrue, notDeletes>>

\* for snapshot_id in expired_ids: the next id, or the return of the count
ThreadCleanupLoop(th) ==
    /\ dthread[th].pc = "loop"
    /\ dthread' =
          [dthread EXCEPT
              ![th] = IF @.result # None \/ @.expired_ids = << >>
                        THEN [@ EXCEPT !.pc = "done"]
                        ELSE [@ EXCEPT
                                 !.pc = "lookup",
                                 !.sid = Head(dthread[th].expired_ids),
                                 !.expired_ids = Tail(@)]]
    /\ UNCHANGED <<now, bakVars, dtrue, notDeletes>>

\* snapshot = self.get_snapshot(snapshot_id); if snapshot is None: return False
ThreadDeleteLookup(th) ==
    /\ dthread[th].pc = "lookup"
    /\ IF dthread[th].sid \in DOMAIN snapshots
         THEN /\ dthread' = [dthread EXCEPT ![th].pc = "exists"]
              /\ UNCHANGED dtrue
         ELSE DeleteEnds(th, "False")
    /\ UNCHANGED <<now, bakVars, notDeletes>>

\* if snapshot.checkpoint_path.exists():
ThreadDeleteExists(th) ==
    /\ dthread[th].pc = "exists"
    /\ dthread' = [dthread EXCEPT
                      ![th].pc = IF store[dthread[th].sid].exists
                                   THEN "rmtree" ELSE "del"]
    /\ UNCHANGED <<now, bakVars, dtrue, notDeletes>>

\* shutil.rmtree(snapshot.checkpoint_path): it raises when the directory is
\* no longer there and when the removal fails
ThreadDeleteRmtree(th, fails) ==
    /\ dthread[th].pc = "rmtree"
    /\ IF fails \/ ~store[dthread[th].sid].exists
         THEN /\ DeleteEnds(th, delete_result("OSError"))
              /\ UNCHANGED store
         ELSE /\ store' = [store EXCEPT ![dthread[th].sid] = Absent]
              /\ dthread' = [dthread EXCEPT ![th].pc = "del"]
              /\ UNCHANGED dtrue
    /\ UNCHANGED <<now, snapshots, next_snapshot, working_dir, pre_restore,
                   bcall, bret, notDeletes>>

\* with self._lock: del self._snapshots[snapshot_id]; return True
ThreadDeleteDel(th) ==
    /\ dthread[th].pc = "del"
    /\ IF dthread[th].sid \in DOMAIN snapshots
         THEN /\ snapshots' = Del(snapshots, dthread[th].sid)
              /\ DeleteEnds(th, delete_result(None))
         ELSE /\ DeleteEnds(th, delete_result("KeyError"))
              /\ UNCHANGED snapshots
    /\ UNCHANGED <<now, next_snapshot, store, working_dir, pre_restore, bcall,
                   bret, notDeletes>>

\* The caller takes the result
ThreadDeleteReturn(th) ==
    /\ dthread[th].pc = "done"
    /\ dthread' = [dthread EXCEPT ![th] = IdleDelete]
    /\ UNCHANGED <<now, bakVars, dtrue, notDeletes>>

\* Snapshots are made and expire while two threads delete and sweep
NextDeletes ==
    \/ BackupTick
    \/ CreateSnapshotStart
    \/ CreateSnapshotFinish("ok")
    \/ BackupReturn
    \/ \E th \in Threads, sid \in SnapshotIds : ThreadDeleteCall(th, sid)
    \/ \E th \in Threads : ThreadCleanupCall(th)
    \/ \E th \in Threads : ThreadCleanupLoop(th)
    \/ \E th \in Threads : ThreadDeleteLookup(th)
    \/ \E th \in Threads : ThreadDeleteExists(th)
    \/ \E th \in Threads, fails \in BOOLEAN : ThreadDeleteRmtree(th, fails)
    \/ \E th \in Threads : ThreadDeleteDel(th)
    \/ \E th \in Threads : ThreadDeleteReturn(th)

----------------------------------------------------------------------------
(* RAGPool.get_or_create_rag (tasks of one event loop) and get_rag_sync    *)
(* (threads), one statement at a time: threads are preempted between       *)
(* statements, tasks give way only at an await that suspends               *)

\* The callers: two tasks of the event loop, one other thread
PoolTasks == {"task1", "task2"}
PoolThreads == {"thread1"}
PoolCallers == PoolTasks \cup PoolThreads

\* The graph_id arguments: an id, the id in whitespace, whitespace only
PoolGraphArgs == {"g1", " g1 ", " "}
\* graph_id.strip()
strip(graph_id) ==
    CASE graph_id = " g1 " -> "g1"
      [] graph_id = " " -> ""
      [] OTHER -> graph_id
PoolGraphIds == {"g1"}

IdlePoolCaller == [pc |-> "idle", graph_id |-> None, rag |-> NoInstance,
                   result |-> NoInstance, error |-> None]

\* RAGPool.__init__
PoolInit ==
    /\ rag_instances = << >>
    /\ rag_made = [g \in PoolGraphIds |-> 0]
    /\ async_lock = None
    /\ sync_lock = None
    /\ pool_caller = [c \in PoolCallers |-> IdlePoolCaller]
    /\ cache_cleared = FALSE

notPool == <<recVars, replVars, bakVars, probeVars, lockVars, sweepVars,
             healthVars, routeVars, foVars, hashVars, restoreVars, orderVars,
             deleteVars, managerVars, graphVars>>

\* The event loop runs one task until it ends: no statement of
\* get_or_create_rag suspends (the asyncio lock is free whenever a task
\* reaches it)
MayRun(c) ==
    c \in PoolTasks =>
        \A other \in PoolTasks \ {c} : pool_caller[other].pc \in {"idle", "done"}

\* The lock a caller creates under: self._async_lock for a task,
\* self._sync_lock for a thread
pool_lock(c) == IF c \in PoolTasks THEN "async_lock" ELSE "sync_lock"
LockHolder(c) ==
    IF pool_lock(c) = "async_lock" THEN async_lock ELSE sync_lock
SetLockHolder(c, holder) ==
    IF pool_lock(c) = "async_lock"
      THEN async_lock' = holder /\ UNCHANGED sync_lock
      ELSE sync_lock' = holder /\ UNCHANGED async_lock

PoolStep(c, caller) == pool_caller' = [pool_caller EXCEPT ![c] = caller]

\* get_or_create_rag(graph_id) or get_rag_sync(graph_id) is called: the id is
\* validated and stripped
PoolCall(c, graph_id) ==
    /\ pool_caller[c].pc = "idle"
    /\ MayRun(c)
    /\ IF strip(graph_id) = ""
         THEN PoolStep(c, [IdlePoolCaller EXCEPT !.pc = "done",
                                                 !.error = "ValueError"])
         ELSE PoolStep(c, [IdlePoolCaller EXCEPT !.pc = "check",
                                                 !.graph_id = strip(graph_id)])
    /\ UNCHANGED <<now, rag_instances, rag_made, async_lock, sync_lock,
                   cache_cleared, notPool>>

\* if graph_id in self._rag_instances: return self._rag_instances[graph_id],
\* before the lock and again under it
PoolCheck(c) ==
    /\ pool_caller[c].pc \in {"check", "check_again"}
    /\ MayRun(c)
    /\ IF pool_caller[c].graph_id \in DOMAIN rag_instances
         THEN /\ PoolStep(c, [pool_caller[c] EXCEPT
                                 !.pc = "done",
                                 !.result =
                                     rag_instances[pool_caller[c].graph_id]])
              /\ IF pool_caller[c].pc = "check_again"
                   THEN SetLockHolder(c, None)
                   ELSE UNCHANGED <<async_lock, sync_lock>>
         ELSE /\ PoolStep(c, [pool_caller[c] EXCEPT
                                 !.pc = IF @ = "check" THEN "acquire"
                                                       ELSE "construct"])
              /\ UNCHANGED <<async_lock, sync_lock>>
    /\ UNCHANGED <<now, rag_instances, rag_made, cache_cleared, notPool>>

\* async with self._async_lock: / with self._sync_lock:
PoolAcquire(c) ==
    /\ pool_caller[c].pc = "acquire"
    /\ MayRun(c)
    /\ LockHolder(c) = None
    /\ SetLockHolder(c, c)
    /\ PoolStep(c, [pool_caller[c] EXCEPT !.pc = "check_again"])
    /\ UNCHANGED <<now, rag_instances, rag_made, cache_cleared, notPool>>

\* rag = LightRAG(**self.base_rag_config, graph_id=graph_id, ...)
PoolConstruct(c) ==
    /\ pool_caller[c].pc = "construct"
    /\ MayRun(c)
    /\ rag_made' = [rag_made EXCEPT ![pool_caller[c].graph_id] = @ + 1]
    /\ PoolStep(c, [pool_caller[c] EXCEPT
                       !.pc = "store",
                       !.rag = rag_made[pool_caller[c].graph_id] + 1])
    /\ UNCHANGED <<now, rag_instances, async_lock, sync_lock, cache_cleared,
                   notPool>>

\* self._rag_instances[graph_id] = rag; return rag, which leaves the lock
PoolStore(c) ==
    /\ pool_caller[c].pc = "store"
    /\ MayRun(c)
    /\ rag_instances' = Put(rag_instances, pool_caller[c].graph_id,
                            pool_caller[c].rag)
    /\ SetLockHolder(c, None)
    /\ PoolStep(c, [pool_caller[c] EXCEPT !.pc = "done",
                                          !.result = pool_caller[c].rag])
    /\ UNCHANGED <<now, rag_made, cache_cleared, notPool>>

\* The caller takes the instance
PoolReturn(c) ==
    /\ pool_caller[c].pc = "done"
    /\ PoolStep(c, IdlePoolCaller)
    /\ UNCHANGED <<now, rag_instances, rag_made, async_lock, sync_lock,
                   cache_cleared, notPool>>

\* clear_cache(), called once, between the statements of the other callers
ClearCache ==
    /\ ~cache_cleared
    /\ rag_instances' = << >>
    /\ cache_cleared' = TRUE
    /\ UNCHANGED <<now, rag_made, async_lock, sync_lock, pool_caller, notPool>>

NextPool ==
    \/ \E c \in PoolCallers, graph_id \in PoolGraphArgs : PoolCall(c, graph_id)
    \/ \E c \in PoolCallers : PoolCheck(c)
    \/ \E c \in PoolCallers : PoolAcquire(c)
    \/ \E c \in PoolCallers : PoolConstruct(c)
    \/ \E c \in PoolCallers : PoolStore(c)
    \/ \E c \in PoolCallers : PoolReturn(c)
    \/ ClearCache

----------------------------------------------------------------------------
(* GraphManager: the graphs and the default graph *)

\* The names and the ids create_graph is called with; None asks for a
\* generated id
GraphNames == {"default", "Sales"}
GraphIdArgs == {None, "default", "sales"}

\* The slug of a name followed by the timestamp
generated_id(name) ==
    CASE name = "Sales" -> "sales_0"
      [] name = "default" -> "default_0"
      [] OTHER -> "_0"

\* The id create_graph(name, description, graph_id) gives the graph
create_graph_id(name, description, graph_id) ==
    IF graph_id = None THEN generated_id(name) ELSE graph_id

\* The ids a graph can have
ManagedGraphIds ==
    {create_graph_id(n, "", g) : n \in GraphNames, g \in GraphIdArgs}
        \cup {create_graph_id("default", "Default Graph",
                              "Default knowledge graph")}

\* graph_id in self._graphs_cache
InCache(graph_id) == \E k \in 1..Len(graphs_cache) : graphs_cache[k] = graph_id

\* GraphManager(base_working_dir) on a directory without graphs_config.json:
\* _initialize_default_graph calls create_graph("default", "Default Graph",
\* "Default knowledge graph"), whose third parameter is graph_id, and sets
\* _default_graph_id = "default"
GraphManagerInit ==
    /\ graphs_cache = <<create_graph_id("default", "Default Graph",
                                        "Default knowledge graph")>>
    /\ graph_dirs = {create_graph_id("default", "Default Graph",
                                     "Default knowledge graph")}
    /\ default_graph_id = "default"
    /\ gm_ret = [op |-> None, result |-> None]

notGraphs == <<recVars, replVars, bakVars, probeVars, lockVars, sweepVars,
               healthVars, routeVars, foVars, hashVars, restoreVars,
               orderVars, deleteVars, managerVars, poolVars>>

\* create_graph(name, graph_id=graph_id)
CreateGraph(name, graph_id) ==
    LET id == create_graph_id(name, "", graph_id) IN
    /\ IF InCache(id)
         THEN /\ gm_ret' = [op |-> "create_graph", result |-> "ValueError"]
              /\ UNCHANGED <<graphs_cache, graph_dirs>>
         ELSE /\ graphs_cache' = Append(graphs_cache, id)
              /\ graph_dirs' = graph_dirs \cup {id}
              /\ gm_ret' = [op |-> "create_graph", result |-> id]
    /\ UNCHANGED <<now, default_graph_id, notGraphs>>

\* set_default_graph(graph_id)
SetDefaultGraph(graph_id) ==
    /\ IF ~InCache(graph_id)
         THEN /\ gm_ret' = [op |-> "set_default_graph", result |-> "False"]
              /\ UNCHANGED default_graph_id
         ELSE /\ default_graph_id' = graph_id
              /\ gm_ret' = [op |-> "set_default_graph", result |-> "True"]
    /\ UNCHANGED <<now, graphs_cache, graph_dirs, notGraphs>>

\* delete_graph(graph_id, force); rmtree raises when the directory is not
\* there and when the removal fails
DeleteGraph(graph_id, force, fails) ==
    /\ IF \/ ~InCache(graph_id)
          \/ ~force /\ graph_id = default_graph_id
          \/ fails
          \/ graph_id \notin graph_dirs
         THEN /\ gm_ret' = [op |-> "delete_graph", result |-> "False"]
              /\ UNCHANGED <<graphs_cache, graph_dirs, default_graph_id>>
         ELSE LET rest == SelectSeq(graphs_cache, LAMBDA g : g # graph_id) IN
              /\ graphs_cache' = rest
              /\ graph_dirs' = graph_dirs \ {graph_id}
              /\ default_graph_id' =
                    IF graph_id # default_graph_id THEN default_graph_id
                    ELSE IF rest # << >> THEN Head(rest)
                    ELSE None
              /\ gm_ret' = [op |-> "delete_graph", result |-> "True"]
    /\ UNCHANGED <<now, notGraphs>>

\* get_default_graph_id()
get_default_graph_id == default_graph_id
\* get_default_graph(): the id of the metadata returned, or None
get_default_graph ==
    IF default_graph_id # None /\ default_graph_id # ""
         /\ InCache(default_graph_id)
      THEN default_graph_id
      ELSE None

NextGraphs ==
    \/ \E name \in GraphNames, graph_id \in GraphIdArgs :
           CreateGraph(name, graph_id)
    \/ \E graph_id \in ManagedGraphIds : SetDefaultGraph(graph_id)
    \/ \E graph_id \in ManagedGraphIds, force, fails \in BOOLEAN :
           DeleteGraph(graph_id, force, fails)

----------------------------------------------------------------------------
(* BackupManager.cleanup_old_backups, over the one registered graph *)

\* auto_cleanup_interval_hours = 24: one day
auto_cleanup_interval == 1

last_cleanup_at_construction_long_ago(t) == t - MaxDays - 1
\* BackupManager.__init__ at time t: self._last_cleanup = datetime.utcnow()
last_cleanup_at_construction(t) == t

\* BackupManager(storage_path, retention_days=1,
\* auto_cleanup_interval_hours=24), and register_graph of the one graph
SweepInit ==
    /\ last_cleanup = last_cleanup_at_construction(now)
    /\ mret = [op |-> None, swept |-> FALSE, result |-> << >>]
    /\ store_retention_days = retention_days
    /\ manager_cleanup_interval = auto_cleanup_interval
    /\ manager_constructed_at = now

\* The program's start, with other arguments: BackupManager(storage_path,
\* retention_days=days, auto_cleanup_interval_hours=24 * interval), and
\* register_graph of the one graph
ConstructBackupManager(days, interval) ==
    /\ next_snapshot = 1
    /\ bcall.pc = "idle"
    /\ mret.op = None
    /\ now = 0
    /\ <<days, interval>> # <<store_retention_days, manager_cleanup_interval>>
    /\ last_cleanup' = last_cleanup_at_construction(now)
    /\ store_retention_days' = days
    /\ manager_cleanup_interval' = interval
    /\ manager_constructed_at' = now
    /\ UNCHANGED <<now, bakVars, mret, recVars, replVars, probeVars, lockVars,
                   healthVars, routeVars, foVars, hashVars, restoreVars,
                   orderVars, deleteVars, poolVars, graphVars>>

cleanup_due_always(elapsed) == TRUE
\* not (now - self._last_cleanup < self.auto_cleanup_interval)
cleanup_due(elapsed) == ~(elapsed < manager_cleanup_interval)

\* The snapshots cleanup_old_snapshots deletes when rmtree raises for those
\* of the set failing
Swept(failing) ==
    {sid \in DOMAIN snapshots :
        is_expired(snapshots[sid]) /\ delete_succeeds(sid, failing)}

\* cleanup_old_backups(); rmtree raises for the snapshots of the set failing.
\* No await of the call suspends, so it is one step.
CleanupOldBackups(failing) ==
    /\ IF cleanup_due(now - last_cleanup)
         THEN /\ last_cleanup' = now
              /\ Deleted(Swept(failing))
              /\ mret' = [op |-> "cleanup_old_backups", swept |-> TRUE,
                          result |->
                              IF Cardinality(Swept(failing)) > 0
                                THEN Put(<< >>, BackupGraphId,
                                         Cardinality(Swept(failing)))
                                ELSE << >>]
         ELSE /\ mret' = [op |-> "cleanup_old_backups", swept |-> FALSE,
                          result |-> << >>]
              /\ UNCHANGED <<last_cleanup, snapshots, store>>
    /\ UNCHANGED <<now, next_snapshot, working_dir, pre_restore, bcall, bret,
                   notSweep>>

\* Snapshots are made and expire as the days pass, and the manager's cleanup
\* is called at any time
NextSweep ==
    \/ BackupTick
    \/ CreateSnapshotStart
    \/ \E o \in CopyOutcomes : CreateSnapshotFinish(o)
    \/ BackupReturn
    \/ \E failing \in SUBSET (1..MaxSnapshots) : CleanupOldBackups(failing)

\* The retention periods and cleanup intervals a manager is constructed with,
\* in days
RetentionDays == {0, 1}
CleanupIntervals == {1, 2}

\* The manager is constructed with some retention and interval; snapshots
\* are made and expire as the days pass and the cleanup is called at any time
NextEarlySweep ==
    \/ \E days \in RetentionDays, interval \in CleanupIntervals :
           ConstructBackupManager(days, interval)
    \/ BackupTick
    \/ CreateSnapshotStart
    \/ CreateSnapshotFinish("ok")
    \/ BackupReturn
    \/ \E failing \in SUBSET (1..MaxSnapshots) : CleanupOldBackups(failing)

----------------------------------------------------------------------------
(* HealthValidator.validate_all_graphs and full_health_check *)

\* The graph lists full_health_check is called with
CheckedGraphLists == SUBSET GraphIds

\* str(e) of the exception a validate_graph coroutine raised
ExceptionMessage == "graph check raised"

\* The message of the ComponentHealth a validate_graph coroutine returned
OwnMessage(status) ==
    CASE status = "healthy" -> "Graph is healthy and accessible"
      [] status = "degraded" -> "Graph is degraded"
      [] OTHER -> "Graph validation failed"

component_health_of_exception_dropped(g, outcome) ==
    [component_id |-> g, component_type |-> "graph", status |-> outcome,
     message |-> OwnMessage(outcome)]
\* The entry validate_all_graphs puts in its result for the graph g: the
\* ComponentHealth the check returned, or a CRITICAL one carrying str(e) when
\* gather handed back the exception the check raised
component_health(g, outcome) ==
    IF outcome = "raises"
      THEN [component_id |-> g, component_type |-> "graph",
            status |-> "critical", message |-> ExceptionMessage]
      ELSE [component_id |-> g, component_type |-> "graph",
            status |-> outcome, message |-> OwnMessage(outcome)]

\* validate_all_graphs, with the ComponentHealth objects whole
validate_all_graphs_healths(outcome) ==
    [g \in DOMAIN outcome |-> component_health(g, outcome[g])]

\* What one validate_replication coroutine ends with: True, False, or an
\* exception
ReplicationOutcomes == {"True", "False", "raises"}

\* bool() of an element of the list gather(..., return_exceptions=True)
\* returns: an exception object is truthy
truthy(outcome) == outcome # "False"

\* replication_check = all(await asyncio.gather(..., return_exceptions=True))
replication_check(outcome) == \A g \in DOMAIN outcome : truthy(outcome[g])

\* The aggregation of full_health_check
overall_status(graph_healths, replication_ok) ==
    LET graphs_status ==
            IF \E g \in DOMAIN graph_healths :
                   graph_healths[g].status = "critical"
              THEN "critical"
            ELSE IF \E g \in DOMAIN graph_healths :
                   graph_healths[g].status = "degraded"
              THEN "degraded"
            ELSE "healthy"
    IN IF ~replication_ok /\ graphs_status = "healthy"
         THEN "degraded"
         ELSE graphs_status

IdleHealthCall ==
    [pc |-> "idle", graphs |-> {}, graph_outcome |-> << >>,
     graph_healths |-> << >>, replication_outcome |-> << >>,
     overall_status |-> None, replication_healthy |-> None]

HealthInit == fcall = IdleHealthCall

\* full_health_check(graph_ids) up to the await of validate_all_graphs
FullHealthCheckStart(gs) ==
    /\ fcall.pc = "idle"
    /\ fcall' = [IdleHealthCall EXCEPT !.pc = "graphs", !.graphs = gs]
    /\ UNCHANGED <<now, notHealth>>

\* validate_all_graphs returns and the validate_replication coroutines are
\* gathered
FullHealthCheckGraphs(outcome) ==
    /\ fcall.pc = "graphs"
    /\ fcall' = [fcall EXCEPT
                    !.pc = "replication",
                    !.graph_outcome = outcome,
                    !.graph_healths = validate_all_graphs_healths(outcome)]
    /\ UNCHANGED <<now, notHealth>>

\* full_health_check from the answer of gather to the return
FullHealthCheckFinish(outcome) ==
    /\ fcall.pc = "replication"
    /\ fcall' = [fcall EXCEPT
                    !.pc = "done",
                    !.replication_outcome = outcome,
                    !.overall_status =
                        overall_status(fcall.graph_healths,
                                       replication_check(outcome)),
                    !.replication_healthy =
                        Returned(replication_check(outcome))]
    /\ UNCHANGED <<now, notHealth>>

\* The caller takes the health report
FullHealthCheckReturn ==
    /\ fcall.pc = "done"
    /\ fcall' = IdleHealthCall
    /\ UNCHANGED <<now, notHealth>>

NextHealth ==
    \/ \E gs \in CheckedGraphLists : FullHealthCheckStart(gs)
    \/ \E o \in [fcall.graphs -> HealthOutcomes] : FullHealthCheckGraphs(o)
    \/ \E o \in [fcall.graphs -> ReplicationOutcomes] :
           FullHealthCheckFinish(o)
    \/ FullHealthCheckReturn

----------------------------------------------------------------------------
(* The routes create_backup_snapshot, create_recovery_checkpoint and        *)
(* get_recovery_health, each from the return of the operation it awaits     *)

NoResponse == [route |-> None, status |-> 0, body |-> None]

RoutesInit ==
    /\ db = {}
    /\ route = NoResponse

\* No request is being served
RoutesIdle ==
    /\ bcall.pc = "idle"
    /\ \A t \in RTasks : rtask[t].pc = "idle"
    /\ fcall.pc = "idle"

\* The database after the try block around session.add and session.commit:
\* the record is there when the commit went through, and when get_session,
\* the record's construction or the commit raised the exception is logged
\* and nothing is written
persisted(record, db_fails) == IF db_fails THEN db ELSE db \cup {record}

response_status_strict(succeeded, db_fails) ==
    IF succeeded /\ ~db_fails THEN 200 ELSE 500
\* The status of a route's response: that of the model it returns, or 500 from
\* the HTTPException of its outer except clause when the operation raised
response_status(succeeded, db_fails) == IF succeeded THEN 200 ELSE 500

\* create_backup_snapshot from the return of create_snapshot
RouteCreateSnapshot(db_fails) ==
    /\ bcall.pc = "done"
    /\ bcall.op = "create_snapshot"
    /\ LET succeeded == bcall.result = "snapshot" IN
        /\ db' = IF succeeded
                   THEN persisted([table |-> "backup_metadata",
                                   id |-> bcall.sid],
                                  db_fails)
                   ELSE db
        /\ route' = [route |-> "create_backup_snapshot",
                     status |-> response_status(succeeded, db_fails),
                     body |-> IF succeeded
                                THEN [id |-> bcall.sid,
                                      status |-> bcall.snapshot.status]
                                ELSE [id |-> 0, status |-> bcall.result]]
    /\ bcall' = IdleCall
    /\ UNCHANGED <<now, snapshots, next_snapshot, store, working_dir,
                   pre_restore, bret, recVars, healthVars, notRoutes>>

\* create_recovery_checkpoint from the return of create_recovery_point
RouteCreateCheckpoint(t, db_fails) ==
    /\ rtask[t].pc = "done"
    /\ rtask[t].op = "create_recovery_point"
    /\ LET succeeded == rtask[t].result = "stored" IN
        /\ db' = IF succeeded
                   THEN persisted([table |-> "recovery_points",
                                   id |-> rtask[t].cp],
                                  db_fails)
                   ELSE db
        /\ route' = [route |-> "create_recovery_checkpoint",
                     status |-> response_status(succeeded, db_fails),
                     body |-> IF succeeded
                                THEN [id |-> rtask[t].cp,
                                      status |-> "validated"]
                                ELSE [id |-> 0, status |-> rtask[t].result]]
    /\ Resume(t, IdleTask)
    /\ UNCHANGED <<now, recovery_points, failover_in_progress, next_checkpoint,
                   bakVars, healthVars, notRoutes>>

\* The graphs health_check has checked: those of all recovery points
CheckpointGraphs ==
    UNION {recovery_points[c].graphs : c \in DOMAIN recovery_points}

\* get_recovery_health from the return of health_check
RouteHealth(db_fails) ==
    /\ fcall.pc = "done"
    /\ db' = persisted([table |-> "health_events", id |-> 0], db_fails)
    /\ route' = [route |-> "get_recovery_health",
                 status |-> response_status(TRUE, db_fails),
                 body |-> [id |-> 0, status |-> fcall.overall_status]]
    /\ fcall' = IdleHealthCall
    /\ UNCHANGED <<now, recVars, bakVars, notRoutes>>

\* Requests of the three routes are served one after another
NextRoutes ==
    \/ RoutesIdle /\ CreateSnapshotStart
    \/ \E o \in CopyOutcomes : CreateSnapshotFinish(o)
    \/ \E f \in BOOLEAN : RouteCreateSnapshot(f)
    \/ \E t \in RTasks, gs \in GraphLists : RoutesIdle /\ CreateStart(t, gs)
    \/ \E t \in RTasks : \E v \in ValidatorResults(rtask[t].graphs) :
           CreateValidated(t, v)
    \/ \E t \in RTasks, f \in BOOLEAN : RouteCreateCheckpoint(t, f)
    \/ RoutesIdle /\ FullHealthCheckStart(CheckpointGraphs)
    \/ \E o \in [fcall.graphs -> HealthOutcomes] : FullHealthCheckGraphs(o)
    \/ \E o \in [fcall.graphs -> ReplicationOutcomes] :
           FullHealthCheckFinish(o)
    \/ \E f \in BOOLEAN : RouteHealth(f)

----------------------------------------------------------------------------
(* DisasterRecoveryManager.initiate_failover, one statement at a time:      *)
(* threads are preempted between statements                                 *)

IdleFailoverThread == [pc |-> "idle", cp |-> 0, result |-> None]

FailoverThreadsInit == fthread = [th \in Threads |-> IdleFailoverThread]

\* The thread th moves on
FailoverStep(th, r) == fthread' = [fthread EXCEPT ![th] = r]

\* A thread calls initiate_failover(c)
ThreadFailoverCall(th, c) ==
    /\ fthread[th].pc = "idle"
    /\ FailoverStep(th, [IdleFailoverThread EXCEPT !.pc = "check", !.cp = c])
    /\ UNCHANGED <<now, recVars, notFailover>>

\* if self._failover_in_progress: return False
ThreadFailoverCheckFlag(th) ==
    /\ fthread[th].pc = "check"
    /\ IF failover_in_progress
         THEN FailoverStep(th, [fthread[th] EXCEPT !.pc = "done",
                                                   !.result = "False"])
         ELSE FailoverStep(th, [fthread[th] EXCEPT !.pc = "lookup"])
    /\ UNCHANGED <<now, recVars, notFailover>>

\* checkpoint = self.get_recovery_point(checkpoint_id); None: return False
ThreadFailoverLookup(th) ==
    /\ fthread[th].pc = "lookup"
    /\ IF unknown_checkpoint(fthread[th].cp)
         THEN FailoverStep(th, [fthread[th] EXCEPT !.pc = "done",
                                                   !.result = "False"])
         ELSE FailoverStep(th, [fthread[th] EXCEPT !.pc = "set"])
    /\ UNCHANGED <<now, recVars, notFailover>>

\* self._failover_in_progress = True
ThreadFailoverSetFlag(th) ==
    /\ fthread[th].pc = "set"
    /\ failover_in_progress' = TRUE
    /\ FailoverStep(th, [fthread[th] EXCEPT !.pc = "validating"])
    /\ UNCHANGED <<now, recovery_points, next_checkpoint, rtask, notFailover>>

\* The try block up to the failover action: validate_recovery_point answers
ThreadFailoverValidated(th, v) ==
    /\ fthread[th].pc = "validating"
    /\ Revalidate(fthread[th].cp, v)
    /\ IF failover_aborts(Revalidated(v))
         THEN FailoverStep(th, [fthread[th] EXCEPT !.pc = "finally",
                                                   !.result = "False"])
         ELSE FailoverStep(th, [fthread[th] EXCEPT !.pc = "failing_over"])
    /\ UNCHANGED <<now, failover_in_progress, next_checkpoint, rtask,
                   notFailover>>

\* The failover action and validate_recovery end
ThreadFailoverDone(th, outcome) ==
    /\ fthread[th].pc = "failing_over"
    /\ FailoverStep(th, [fthread[th] EXCEPT
                            !.pc = "finally",
                            !.result = CASE outcome = "ok" -> "True"
                                         [] outcome = "error" -> "False"
                                         [] OTHER -> "cancelled"])
    /\ UNCHANGED <<now, recVars, notFailover>>

\* finally: self._failover_in_progress = False
ThreadFailoverFinally(th) ==
    /\ fthread[th].pc = "finally"
    /\ failover_in_progress' = flag_after_failover(fthread[th].result)
    /\ FailoverStep(th, [fthread[th] EXCEPT !.pc = "done"])
    /\ UNCHANGED <<now, recovery_points, next_checkpoint, rtask, notFailover>>

\* The caller takes the result
ThreadFailoverReturn(th) ==
    /\ fthread[th].pc = "done"
    /\ FailoverStep(th, IdleFailoverThread)
    /\ UNCHANGED <<now, recVars, notFailover>>

\* A checkpoint is created, and threads call initiate_failover
NextFailoverThreads ==
    \/ \E t \in RTasks, gs \in GraphLists : CreateStart(t, gs)
    \/ \E t \in RTasks : \E v \in ValidatorResults(rtask[t].graphs) :
           CreateValidated(t, v)
    \/ \E t \in RTasks : RecoveryReturn(t)
    \/ \E th \in Threads, c \in CheckpointIds : ThreadFailoverCall(th, c)
    \/ \E th \in Threads : ThreadFailoverCheckFlag(th)
    \/ \E th \in Threads : ThreadFailoverLookup(th)
    \/ \E th \in Threads : ThreadFailoverSetFlag(th)
    \/ \E th \in Threads :
           \E v \in ValidatorResults(
                       IF unknown_checkpoint(fthread[th].cp) THEN {}
                       ELSE recovery_points[fthread[th].cp].graphs) :
               ThreadFailoverValidated(th, v)
    \/ \E th \in Threads, o \in FailoverOutcomes : ThreadFailoverDone(th, o)
    \/ \E th \in Threads : ThreadFailoverFinally(th)
    \/ \E th \in Threads : ThreadFailoverReturn(th)

Init ==
    /\ now = 0
    /\ RecoveryInit
    /\ ReplicationInit
    /\ BackupInit
    /\ ProbeInit
    /\ LockInit
    /\ HashInit
    /\ RestoresInit
    /\ LockOrderInit
    /\ DeletesInit
    /\ PoolInit
    /\ GraphManagerInit
    /\ SweepInit
    /\ HealthInit
    /\ RoutesInit
    /\ FailoverThreadsInit

SpecRecovery == Init /\ [][NextRecovery]_vars

SpecReplication == Init /\ [][NextReplication]_vars

SpecRegistry == Init /\ [][NextRegistry]_vars

SpecTargets == Init /\ [][NextTargets]_vars

SpecGetOrCreate == Init /\ [][NextGetOrCreate]_vars

SpecRestore == Init /\ [][NextRestore]_vars

SpecRestoreGuard == Init /\ [][NextRestoreGuard]_vars

SpecSweep == Init /\ [][NextSweep]_vars

SpecHealth == Init /\ [][NextHealth]_vars

SpecRoutes == Init /\ [][NextRoutes]_vars

SpecFailoverThreads == Init /\ [][NextFailoverThreads]_vars

SpecCancel == Init /\ [][NextCancel]_vars

SpecHash == Init /\ [][NextHash]_vars

SpecRestores == Init /\ [][NextRestores]_vars

SpecInFlight == Init /\ [][NextInFlight]_vars

SpecLockOrder == Init /\ [][NextLockOrder]_vars

SpecDeletes == Init /\ [][NextDeletes]_vars

SpecEarlySweep == Init /\ [][NextEarlySweep]_vars

SpecPool == Init /\ [][NextPool]_vars

SpecGraphs == Init /\ [][NextGraphs]_vars

SpecRetention == Init /\ [][NextRetention]_vars

\* The event loop resumes a suspended initiate_failover once what it awaits
\* has completed: the validator's answer, then the failover action.
FailoverResumes ==
    \E t \in RTasks :
        \/ \E v \in ValidatorResults(rtask[t].graphs) : FailoverValidated(t, v)
        \/ \E o \in FailoverOutcomes : FailoverFinish(t, o)

FairSpecRecovery == SpecRecovery /\ WF_vars(FailoverResumes)

----------------------------------------------------------------------------
(* Properties of the DisasterRecoveryManager *)

\* An initiate_failover call between setting and clearing the flag
Executing(t) ==
    /\ rtask[t].op = "initiate_failover"
    /\ rtask[t].pc \in {"validating", "failing_over"}

\* A step in which task t calls initiate_failover
CallsFailover(t) ==
    /\ rtask[t].pc = "idle"
    /\ rtask'[t].op = "initiate_failover"

C1_AtMostOneHolder ==
    /\ Cardinality({t \in RTasks : rtask[t].held}) <= 1
    /\ \A t \in RTasks : rtask[t].held <=> Executing(t)

C1_BusyIsRejected ==
    \A t \in RTasks :
        (CallsFailover(t) /\ failover_in_progress) =>
            /\ rtask'[t].pc = "done"
            /\ rtask'[t].result = "False"
            /\ ~rtask'[t].held
            /\ failover_in_progress' = failover_in_progress

\* C1: under cooperative scheduling at most one initiate_failover call is
\* between setting and clearing the failover-in-progress flag, and a call that
\* starts while the flag is set returns false without changing the flag.
C1_SingleFailover == [](C1_AtMostOneHolder) /\ [][C1_BusyIsRejected]_vars

\* One call holds the flag while another, on a known checkpoint, was rejected
C1_Witness ==
    \E t1, t2 \in RTasks :
        /\ t1 # t2
        /\ rtask[t1].held
        /\ rtask[t2].op = "initiate_failover"
        /\ rtask[t2].pc = "done"
        /\ rtask[t2].result = "False"
        /\ rtask[t2].cp \in DOMAIN recovery_points

C2_IdleMeansClear ==
    (\A t \in RTasks : ~Executing(t)) => ~get_recovery_status_failover

\* C2: every initiate_failover call that sets the in-progress flag eventually
\* clears it (success, failed re-validation or unexpected error), and whenever
\* no initiate_failover call is executing get_recovery_status reports
\* failover_in_progress false.
C2_FlagReleased ==
    /\ [](C2_IdleMeansClear)
    /\ failover_in_progress ~> ~failover_in_progress

\* A call that set the flag has ended with an unexpected error and the flag
\* is clear again
C2_Witness ==
    \E t \in RTasks :
        /\ rtask[t].op = "initiate_failover"
        /\ rtask[t].pc = "done"
        /\ rtask[t].ran
        /\ rtask[t].result \in {"False", "cancelled"}
        /\ ~failover_in_progress

\* C3: initiate_failover returns true only if the re-validation made in that
\* call found no critical graph; when it finds one, the failover action and
\* the post-failover validation are not run and the call returns false.
C3_TrueOnlyIfRevalidated ==
    \A t \in RTasks :
        rtask[t].op = "initiate_failover" =>
            /\ (rtask[t].pc = "done" /\ rtask[t].result = "True") =>
                   rtask[t].seen = "clear"
            /\ rtask[t].ran => rtask[t].seen = "clear"
            /\ (rtask[t].pc = "done" /\ rtask[t].seen = "critical") =>
                   (rtask[t].result = "False" /\ ~rtask[t].ran)

\* A failover was aborted because its re-validation found a critical graph
C3_Witness ==
    \E t \in RTasks :
        /\ rtask[t].op = "initiate_failover"
        /\ rtask[t].pc = "done"
        /\ rtask[t].seen = "critical"
        /\ rtask[t].result = "False"

C4_Rejected(t) ==
    /\ CallsFailover(t)
    /\ failover_in_progress \/ rtask'[t].cp \notin DOMAIN recovery_points

\* C4: a rejected initiate_failover (failover already in progress, or unknown
\* checkpoint id) returns false and leaves the in-progress flag, the set of
\* stored checkpoints and every checkpoint's validated flag and
\* validation_timestamp as they were.
C4_RejectionChangesNothing ==
    [][\A t \in RTasks :
          C4_Rejected(t) =>
              /\ rtask'[t].pc = "done"
              /\ rtask'[t].result = "False"
              /\ failover_in_progress' = failover_in_progress
              /\ recovery_points' = recovery_points]_vars

\* Both rejections have happened: one for an unknown id, one while a failover
\* was in progress on a stored, validated checkpoint
C4_Witness ==
    \E t1, t2 \in RTasks :
        /\ rtask[t1].op = "initiate_failover" /\ rtask[t1].pc = "done"
        /\ rtask[t1].seen = None
        /\ rtask[t1].cp \notin DOMAIN recovery_points
        /\ rtask[t2].held
        /\ failover_in_progress
        /\ recovery_points[rtask[t2].cp].validation_timestamp > 0

C5_FailedCreate(t) ==
    /\ rtask[t].op = "create_recovery_point"
    /\ rtask[t].pc = "validating"
    /\ rtask'[t].pc = "done"
    /\ rtask'[t].seen = "critical"

C5_StoredOnlyIfClear ==
    \A c \in DOMAIN recovery_points : recovery_points[c].created_seen = "clear"

\* C5: create_recovery_point over graphs of which one validates as critical
\* fails with an error and leaves the checkpoint store unchanged; a checkpoint
\* is in the store only if no covered graph was critical at the validation
\* done during its creation.
C5_NoCheckpointOverCriticalGraphs ==
    /\ [](C5_StoredOnlyIfClear)
    /\ [][\A t \in RTasks :
             C5_FailedCreate(t) =>
                 /\ rtask'[t].result = "raised"
                 /\ recovery_points' = recovery_points]_vars

\* A creation failed on a critical graph and its
\* checkpoint is not in the store
C5_Witness ==
    \E t \in RTasks :
        /\ rtask[t].op = "create_recovery_point"
        /\ rtask[t].pc = "done"
        /\ rtask[t].seen = "critical"
        /\ rtask[t].result = "raised"
        /\ rtask[t].cp \notin DOMAIN recovery_points

----------------------------------------------------------------------------
(* Properties of the GraphReplicator and the ReplicationManager *)

\* The log entries appended since the replicate_snapshot call under way began
NewLogs ==
    SubSeq(replicators[rcall.graph].logs,
           rcall.logs_at_start + 1, Len(replicators[rcall.graph].logs))

\* C6: replicate_snapshot called when N targets are enabled returns a map
\* whose keys are exactly those N target ids and appends exactly N log entries,
\* one per enabled target, each carrying that target's id and the backup id of
\* the call, whatever the targets answer and in whatever order they finish;
\* a disabled target gets no key and no log entry.
C6_OneKeyAndOneLogPerEnabledTarget ==
    /\ rcall.pc \in {"gather", "done"} =>
          \A k \in DOMAIN NewLogs :
              /\ NewLogs[k].target_id \in rcall.enabled_at_start
              /\ NewLogs[k].backup_id = rcall.backup_id
    /\ rcall.pc = "done" =>
          /\ DOMAIN rcall.results = rcall.enabled_at_start
          /\ Len(NewLogs) = Cardinality(rcall.enabled_at_start)
          /\ \A id \in rcall.enabled_at_start :
                Cardinality({k \in DOMAIN NewLogs :
                                NewLogs[k].target_id = id}) = 1

\* A call has returned with one enabled and one disabled target in the
\* replicator: the enabled target alone has a key and a log entry
C6_Witness ==
    /\ rcall.pc = "done"
    /\ Cardinality(rcall.enabled_at_start) = 1
    /\ \E id \in DOMAIN replicators[rcall.graph].targets :
          /\ ~target_objs[replicators[rcall.graph].targets[id]].enabled
          /\ id \notin DOMAIN rcall.results
    /\ Len(NewLogs) = 1

\* The coroutine of the call that replicates to the target id
SubOf(id) ==
    CHOOSE i \in DOMAIN rcall.subs :
        target_objs[rcall.targets[i]].target_id = id

\* A step of the call under way in which the coroutine i ends
SubEnds(i) ==
    /\ rcall.pc = "gather"
    /\ i \in DOMAIN rcall.subs
    /\ rcall.subs[i].pc # "done"
    /\ rcall'.pc = "gather"
    /\ rcall'.subs[i].pc = "done"

C7_OutcomeIsTheTargetsOwn ==
    rcall.pc = "done" =>
        \A id \in rcall.enabled_at_start :
            /\ rcall.results[id] \in {"True", "False"}
            /\ rcall.results[id] = "True" <=>
                  rcall.subs[SubOf(id)].upload = "200_success"
            /\ (/\ rcall.subs[SubOf(id)].health = "200"
                /\ rcall.subs[SubOf(id)].upload = "200_success") =>
                  rcall.results[id] = "True"

\* C7: replicate_snapshot never raises because of a target failure and a
\* target's outcome does not depend on the other targets: the call returns a
\* map of booleans in which a target whose health check and upload succeeded
\* has true, whatever happened to the other targets, and the end of one
\* target's attempt leaves the attempts of the others as they were.
C7_TargetsAreIndependent ==
    /\ [](C7_OutcomeIsTheTargetsOwn)
    /\ [][\A i \in 1..MaxTargetObjs :
             SubEnds(i) =>
                 \A j \in DOMAIN rcall.subs \ {i} :
                     rcall'.subs[j] = rcall.subs[j]]_vars

\* A call has returned true for one target although the other target was
\* unreachable
C7_Witness ==
    /\ rcall.pc = "done"
    /\ \E id1, id2 \in rcall.enabled_at_start :
          /\ rcall.subs[SubOf(id1)].health = "200"
          /\ rcall.subs[SubOf(id1)].upload = "200_success"
          /\ rcall.results[id1] = "True"
          /\ rcall.subs[SubOf(id2)].health = "error"
          /\ rcall.results[id2] = "False"

\* C10: a deregistered replication target is referenced nowhere: it is absent
\* from the registry of the ReplicationManager, from every per-graph
\* replicator that exists, and so from every replicator made afterwards.
C10_DeregisteredIsReferencedNowhere ==
    \A id \in deregistered :
        /\ id \notin DOMAIN mgr_targets
        /\ \A g \in DOMAIN replicators : id \notin DOMAIN replicators[g].targets

\* A replicator made after the deregistration of a target holds that target
C10_Witness ==
    \E id \in deregistered, g1, g2 \in DOMAIN replicators :
        /\ id \notin DOMAIN replicators[g1].targets
        /\ id \in DOMAIN replicators[g2].targets

----------------------------------------------------------------------------
(* Properties of GraphBackup *)

\* A step in which the restore_snapshot call under way ends after its copy
\* was made
RestoreEnds ==
    /\ bcall.op = "restore_snapshot"
    /\ bcall.pc = "copied"
    /\ bcall'.pc = "done"

\* C8: whenever restore_snapshot returns success the hash of the target
\* directory, computed as at snapshot time, equals the snapshot's stored hash;
\* when the two differ the restore raises the integrity error instead of
\* returning and the snapshot's status is not changed to restored.
C8_RestoreFailsClosed ==
    [][RestoreEnds =>
          /\ bcall'.result = "True" =>
                /\ calculate_dir_hash(working_dir') = bcall.hash
                /\ bcall.sid \in DOMAIN snapshots' =>
                      /\ snapshots'[bcall.sid].data_hash =
                            calculate_dir_hash(working_dir')
                      /\ snapshots'[bcall.sid].status = "restored"
          /\ calculate_dir_hash(working_dir) # bcall.hash =>
                /\ bcall'.result = "IntegrityError"
                /\ snapshots' = snapshots]_vars

\* One snapshot was restored with success; the restore of another, whose
\* stored data changed on disk, has raised the integrity error and left that
\* snapshot completed
C8_Witness ==
    /\ bcall.op = "restore_snapshot"
    /\ bcall.pc = "done"
    /\ bcall.result = "IntegrityError"
    /\ bcall.sid \in DOMAIN snapshots
    /\ snapshots[bcall.sid].status = "completed"
    /\ \E sid \in DOMAIN snapshots : snapshots[sid].status = "restored"

\* The catalog snapshots whose retention_until is strictly earlier than now
Expired == {sid \in DOMAIN snapshots : snapshots[sid].retention_until < now}

\* The snapshots for which rmtree is called and raises, when it raises for
\* those of the set failing
RemovalFails(failing) == {sid \in failing \cap Expired : store[sid].exists}

\* C9 as stated: cleanup_old_snapshots deletes exactly the catalog snapshots
\* whose retention_until is strictly earlier than the current time and returns
\* their number.
C9_DeletesExactlyTheExpired ==
    [][\A failing \in SUBSET (1..MaxSnapshots) :
          CleanupOldSnapshots(failing) =>
              /\ DOMAIN snapshots' = DOMAIN snapshots \ Expired
              /\ bret'.count = Cardinality(Expired)]_vars

\* C9, amended: cleanup_old_snapshots deletes only catalog snapshots whose
\* retention_until is strictly earlier than the current time (one whose
\* retention_until equals now or lies in the future is kept); it deletes every
\* such snapshot except those whose storage removal fails, which stay in the
\* catalog; it returns the number of snapshots it removed and leaves the
\* snapshots it keeps as they were.
C9_DeletesTheExpiredItCanRemove ==
    [][\A failing \in SUBSET (1..MaxSnapshots) :
          CleanupOldSnapshots(failing) =>
              LET removed == DOMAIN snapshots \ DOMAIN snapshots' IN
              /\ DOMAIN snapshots' \subseteq DOMAIN snapshots
              /\ removed \subseteq Expired
              /\ removed = Expired \ RemovalFails(failing)
              /\ bret'.count = Cardinality(removed)
              /\ \A sid \in DOMAIN snapshots' : snapshots'[sid] = snapshots[sid]
              /\ \A sid \in removed : ~store'[sid].exists]_vars

\* A cleanup has removed one snapshot and returned 1, and has kept a snapshot
\* whose retention_until equals the current time
C9_Witness ==
    /\ bret.op = "cleanup_old_snapshots"
    /\ bret.count = 1
    /\ Cardinality(DOMAIN snapshots) = 1
    /\ \E sid \in DOMAIN store : ~store[sid].exists
    /\ \E sid \in DOMAIN snapshots : snapshots[sid].retention_until = now

----------------------------------------------------------------------------
(* Properties of the target registry and of check_target_health *)

\* The target ids of the ReplicationTarget objects constructed so far: each
\* was passed to register_target, and the first of an id was accepted
RegisteredIds ==
    {target_objs[k].target_id : k \in 1..Len(target_objs)}

\* The object register_target accepted for the id
RegisteredAs(id) ==
    CHOOSE k \in 1..Len(target_objs) :
        /\ target_objs[k].target_id = id
        /\ \A j \in 1..(k - 1) : target_objs[j].target_id # id

\* C11: with no removals every per-graph replicator holds every registered
\* target, whether it was made before or after the registration: its
\* total_targets is the number of registered targets and its enabled_targets
\* the number of enabled ones.
C11_ReplicatorsHoldEveryTarget ==
    \A g \in DOMAIN replicators :
        /\ DOMAIN replicators[g].targets = RegisteredIds
        /\ \A id \in RegisteredIds :
              replicators[g].targets[id] = RegisteredAs(id)
        /\ get_replication_status(replicators[g]).total_targets =
              Cardinality(RegisteredIds)
        /\ get_replication_status(replicators[g]).enabled_targets =
              Cardinality({id \in RegisteredIds :
                              target_objs[RegisteredAs(id)].enabled})

\* Two targets are registered, both enabled, and both replicators report
\* two targets of which two are enabled
C11_Witness ==
    /\ Cardinality(RegisteredIds) = 2
    /\ DOMAIN replicators = ReplGraphIds
    /\ \A g \in DOMAIN replicators :
          /\ get_replication_status(replicators[g]).total_targets = 2
          /\ get_replication_status(replicators[g]).enabled_targets = 2

\* C12: register_target with a target id already in the registry returns
\* false and changes nothing: the registry, the object registered under the
\* id and every replicator's target set stay as they were.
C12_DuplicateRegistrationIsRejected ==
    [][\A id \in TargetIds, en \in BOOLEAN :
          (RegisterTarget(id, en) /\ id \in DOMAIN mgr_targets) =>
              /\ ~register_target_returns(id)
              /\ mgr_targets' = mgr_targets
              /\ target_objs'[mgr_targets[id]] = target_objs[mgr_targets[id]]
              /\ replicators' = replicators]_vars

\* A second object was constructed with the id of a registered target and
\* another enabled flag: the registry still holds the first
C12_Witness ==
    \E k \in 1..Len(target_objs) :
        LET id == target_objs[k].target_id IN
        /\ id \in DOMAIN mgr_targets
        /\ mgr_targets[id] # k
        /\ target_objs[mgr_targets[id]].enabled # target_objs[k].enabled
        /\ \E g \in DOMAIN replicators :
              replicators[g].targets[id] = mgr_targets[id]

\* C13: under any interleaving of concurrent callers register_graph and
\* get_graph_replicator construct at most one instance per graph id, and every
\* call for a graph id returns the instance the manager holds for it.
C13_OneInstancePerGraph ==
    \A m \in Managers :
        /\ \A g \in ReplGraphIds : gmade[m][g] <= 1
        /\ \A th \in Threads :
              (gthread[th].pc = "done" /\ gthread[th].mgr = m) =>
                  /\ gthread[th].result # NoInstance
                  /\ gthread[th].graph \in DOMAIN ginstances[m]
                  /\ gthread[th].result = ginstances[m][gthread[th].graph]
        /\ \A t1, t2 \in Threads :
              (/\ gthread[t1].pc = "done" /\ gthread[t2].pc = "done"
               /\ gthread[t1].mgr = m /\ gthread[t2].mgr = m
               /\ gthread[t1].graph = gthread[t2].graph) =>
                  gthread[t1].result = gthread[t2].result

\* Two threads that raced for the same graph of the same manager have both
\* returned, with the one instance constructed for it
C13_Witness ==
    \E t1, t2 \in Threads :
        /\ t1 # t2
        /\ gthread[t1].pc = "done" /\ gthread[t2].pc = "done"
        /\ gthread[t1].mgr = gthread[t2].mgr
        /\ gthread[t1].graph = gthread[t2].graph
        /\ gthread[t1].result = gthread[t2].result
        /\ gmade[gthread[t1].mgr][gthread[t1].graph] = 1

\* A restore_snapshot call is between its validity check and its integrity
\* check
RestoreInFlight ==
    /\ bcall.op = "restore_snapshot"
    /\ bcall.pc \in {"copying", "copied"}

\* C14: mutations of one snapshot id are serialized: no delete_snapshot(id)
\* removes the storage or the catalog entry of a snapshot while
\* restore_snapshot(id) is between its validity check and its integrity check.
C14_DeleteWaitsForRestore ==
    [][\A sid \in SnapshotIds : \A failing \in SUBSET {sid} :
          (DeleteSnapshot(sid, failing) /\ RestoreInFlight /\ sid = bcall.sid)
              => /\ snapshots' = snapshots
                 /\ store' = store]_vars

\* A restore is between its two checks and its snapshot is gone from the
\* catalog and from the storage
C14_Witness ==
    /\ RestoreInFlight
    /\ bcall.sid \notin DOMAIN snapshots
    /\ ~store[bcall.sid].exists

\* C15: every check_target_health on an enabled, known target sets the
\* target's last_health_check to the time of the check, whatever the outcome
\* (healthy, degraded on a non-200 status, degraded on a timeout, unreachable).
C15_EveryCheckIsStamped ==
    [][\A resp \in HealthResponses :
          CheckHealthFinish(resp) =>
              target_objs'[hcall.probe].last_health_check = now]_vars

\* A check of an enabled, known target has ended on a timeout or a transport
\* failure and the target still has no last_health_check
C15_Witness ==
    /\ hcall.pc = "done"
    /\ hcall.resp \in {"timeout", "error"}
    /\ target_objs[hcall.probe].enabled
    /\ target_objs[hcall.probe].last_health_check = NoTime

\* check_target_health is called for an id the replicator does not hold or
\* for a disabled target
ProbeSkipped(g, id) ==
    \/ id \notin DOMAIN replicators[g].targets
    \/ ~target_objs[replicators[g].targets[id]].enabled

\* C16: check_target_health returns healthy on a 200 answer and clears
\* last_error; degraded on another status, recording the status; degraded on a
\* timeout, recording a timeout error; unreachable on another transport
\* failure, recording its message; for a disabled or unknown id it returns
\* unknown without a network call and without changing any target field.
C16_HealthOutcomes ==
    [][/\ \A resp \in HealthResponses :
             CheckHealthFinish(resp) =>
                 LET err == target_objs'[hcall.probe].last_error
                     res == hcall'.result
                 IN /\ resp = "200" => res = "healthy" /\ err = None
                    /\ resp = "503" =>
                          res = "degraded" /\ err = "Health check returned 503"
                    /\ resp = "timeout" =>
                          res = "degraded" /\ err = "Health check timeout"
                    /\ resp = "error" =>
                          res = "unreachable" /\ err = "transport error"
       /\ \A g \in ReplGraphIds, id \in TargetIds :
             (CheckHealthStart(g, id) /\ ProbeSkipped(g, id)) =>
                 /\ hcall'.result = "unknown"
                 /\ hcall'.pc = "done"
                 /\ hcall'.resp = None
                 /\ target_objs' = target_objs]_vars

\* A check has timed out and returned degraded with the timeout error
\* recorded, after a check of another target ended healthy with last_error
\* cleared and the check of a disabled target returned nothing but unknown
C16_Witness ==
    /\ hcall.pc = "done"
    /\ hcall.resp = "timeout"
    /\ hcall.result = "degraded"
    /\ target_objs[hcall.probe].last_error = "Health check timeout"
    /\ \E k \in 1..Len(target_objs) :
          /\ k # hcall.probe
          /\ target_objs[k].last_health_check # NoTime
          /\ target_objs[k].last_error = None

\* The _replicate_to_target coroutines of the call under way that have ended
EndedSubs ==
    IF rcall.pc \in {"gather", "done"}
      THEN {i \in DOMAIN rcall.subs : rcall.subs[i].pc = "done"}
      ELSE {}

\* The log entry the coroutine i of the call under way has appended
LogsOfSub(i) ==
    LET logs == replicators[rcall.graph].logs IN
    {k \in (rcall.logs_at_start + 1)..Len(logs) :
        logs[k].target_id = target_objs[rcall.targets[i]].target_id}

\* C17: a target's result in replicate_snapshot is true exactly when its
\* pre-upload health check is not unreachable, its upload response has a 2xx
\* status and the body's success indicator is true; in every other case the
\* result is false and the target's log entry is failed with the error
\* recorded.
C17_TrueExactlyOn2xxSuccess ==
    \A i \in EndedSubs :
        LET sub == rcall.subs[i]
            ok == /\ sub.health # "error"
                  /\ sub.upload \in {"200_success", "201"}
        IN /\ sub.result = "True" <=> ok
           /\ ~ok => /\ sub.result = "False"
                     /\ \A k \in LogsOfSub(i) :
                           /\ replicators[rcall.graph].logs[k].status = "failed"
                           /\ replicators[rcall.graph].logs[k].error_message
                                 # None

\* An upload was answered 201 with success true after a health check that
\* did not find the target unreachable, and the target's result is false
C17_Witness ==
    \E i \in EndedSubs :
        /\ rcall.subs[i].health # "error"
        /\ rcall.subs[i].upload = "201"
        /\ rcall.subs[i].result = "False"
        /\ \E k \in LogsOfSub(i) :
              replicators[rcall.graph].logs[k].status = "failed"

\* The entries of logs whose replication attempt succeeded: it ended without
\* an error
Succeeded(logs) == {k \in DOMAIN logs : logs[k].error_message = None}

\* C18: get_replication_status reports, over the (up to 10) most recent log
\* entries, successful_operations = the number of entries whose attempt
\* succeeded and failed_operations = the number whose attempt failed; once all
\* attempts have finished successful_operations + failed_operations =
\* recent_operations.
C18_StatusCountsAddUp ==
    \A g \in DOMAIN replicators :
        LET st == get_replication_status(replicators[g])
            recent == get_replication_logs(replicators[g], status_log_limit)
        IN /\ st.successful_operations = Cardinality(Succeeded(recent))
           /\ st.failed_operations =
                 Cardinality(DOMAIN recent \ Succeeded(recent))
           /\ st.successful_operations + st.failed_operations =
                 st.recent_operations

\* A replication has ended with success for a target, no attempt is under
\* way, and the status of the graph reports one recent operation, none of
\* them successful and none failed
C18_Witness ==
    /\ rcall.pc = "idle"
    /\ \E g \in DOMAIN replicators :
          LET st == get_replication_status(replicators[g]) IN
          /\ Len(replicators[g].logs) = 1
          /\ replicators[g].logs[1].status = "validated"
          /\ st.recent_operations = 1
          /\ st.successful_operations = 0
          /\ st.failed_operations = 0

\* C19: for a known checkpoint id, when validate_recovery_point returns, the
\* checkpoint's stored validated flag equals the returned value and its
\* validation_timestamp is the time of this validation, for every outcome (no
\* critical graph, some critical graph, or the validator failing).
C19_StoredFlagIsTheReturnedValue ==
    [][\A t \in RTasks : \A v \in ValidatorResults(rtask[t].graphs) :
          ValidateDone(t, v) =>
              LET stored == recovery_points'[rtask[t].cp] IN
              /\ Returned(stored.validated) = rtask'[t].result
              /\ stored.validation_timestamp = now]_vars

\* A validate_recovery_point call whose validator failed has returned false
\* and the checkpoint is still stored as validated
C19_Witness ==
    \E t \in RTasks :
        /\ rtask[t].op = "validate_recovery_point"
        /\ rtask[t].pc = "done"
        /\ rtask[t].seen = "failed"
        /\ rtask[t].result = "False"
        /\ rtask[t].cp \in DOMAIN recovery_points
        /\ recovery_points[rtask[t].cp].validated

\* C20: a checkpoint stored by a successful create_recovery_point has
\* validated = true and a validation_timestamp equal to its creation
\* timestamp.
C20_CreatedValidatedAtCreation ==
    [][\A t \in RTasks : \A v \in ValidatorResults(rtask[t].graphs) :
          (CreateValidated(t, v) /\ rtask'[t].result = "stored") =>
              LET stored == recovery_points'[rtask[t].cp] IN
              /\ stored.validated
              /\ stored.validation_timestamp = stored.timestamp]_vars

\* A create_recovery_point call has stored a validated checkpoint whose
\* validation_timestamp is later than its creation timestamp
C20_Witness ==
    \E t \in RTasks :
        /\ rtask[t].op = "create_recovery_point"
        /\ rtask[t].pc = "done"
        /\ rtask[t].result = "stored"
        /\ recovery_points[rtask[t].cp].validated
        /\ recovery_points[rtask[t].cp].timestamp <
              recovery_points[rtask[t].cp].validation_timestamp

\* restore_snapshot(sid) is called for an id that is not in the catalog
RestoreOfUnknown(sid) == sid \notin DOMAIN snapshots

\* restore_snapshot(sid) is called for a catalog snapshot whose status is not
\* completed, whose storage is missing or whose retention has run out
RestoreOfInvalid(sid) ==
    /\ sid \in DOMAIN snapshots
    /\ \/ snapshots[sid].status # "completed"
       \/ ~store[sid].exists
       \/ now > snapshots[sid].retention_until

\* C21: restore_snapshot fails with an error for an unknown snapshot id and
\* for a snapshot that is not currently valid (status not completed, storage
\* missing, or expired); in both cases the target directory, any _pre_restore
\* directory and the snapshot's status are unchanged.
C21_RestoreRefusesUnknownAndInvalid ==
    [][\A sid \in SnapshotIds :
          (RestoreSnapshotStart(sid) /\
           (RestoreOfUnknown(sid) \/ RestoreOfInvalid(sid))) =>
              /\ bcall'.pc = "done"
              /\ bcall'.result = "ValueError"
              /\ working_dir' = working_dir
              /\ pre_restore' = pre_restore
              /\ snapshots' = snapshots]_vars

\* The restore of an expired snapshot, completed and with its storage in
\* place, was refused over an existing target directory, nothing moved aside
C21_Witness ==
    /\ bcall.op = "restore_snapshot"
    /\ bcall.pc = "done"
    /\ bcall.result = "ValueError"
    /\ bcall.sid \in DOMAIN snapshots
    /\ snapshots[bcall.sid].status = "completed"
    /\ store[bcall.sid].exists
    /\ now > snapshots[bcall.sid].retention_until
    /\ working_dir.exists
    /\ pre_restore = << >>

\* The files found under the sibling path <target name>_pre_restore: those of
\* the directory first moved there and, below the subdirectory <target name>
\* (path component 0), those of the directory moved into it afterwards
PreRestoreFiles(moved) ==
    IF moved = << >> THEN {}
    ELSE moved[1].files \cup
         UNION {{File(<<0>> \o f.path, f.data) : f \in moved[k].files} :
                   k \in 2..Len(moved)}

\* C22: when restore_snapshot is called on a target directory that already
\* exists, the directory's previous contents are, after the move, found at the
\* sibling path <target name>_pre_restore, for every restore in any sequence
\* of restores to the same target directory.
C22_PreviousContentsAtSiblingPath ==
    [][\A sid \in SnapshotIds :
          (/\ RestoreSnapshotStart(sid)
           /\ working_dir.exists
           /\ bcall'.pc = "copying") =>
              PreRestoreFiles(pre_restore') = working_dir.files]_vars

\* A second restore to the same target directory has moved the directory
\* aside: its previous contents lie below <target name>_pre_restore/<target
\* name>, and the sibling path still holds what the first restore moved
C22_Witness ==
    /\ bcall.op = "restore_snapshot"
    /\ bcall.pc = "copying"
    /\ Len(pre_restore) = 2
    /\ ~working_dir.exists
    /\ PreRestoreFiles(pre_restore) # pre_restore[2].files

\* C23: create_snapshot raises not-found when the source directory does not
\* exist, and on any failure during copy or hashing marks the snapshot failed
\* with the error message captured and re-raises to the caller; in both cases
\* the snapshot catalog is unchanged.
C23_FailedCreateLeavesCatalog ==
    [][/\ (CreateSnapshotStart /\ ~working_dir.exists) =>
             /\ bcall'.pc = "done"
             /\ bcall'.result = "FileNotFoundError"
             /\ snapshots' = snapshots
       /\ \A o \in CopyOutcomes :
             (CreateSnapshotFinish(o) /\ (o = "error" \/ ~working_dir.exists))
                 => /\ bcall'.pc = "done"
                    /\ bcall'.result = "Error"
                    /\ bcall'.snapshot.status = "failed"
                    /\ bcall'.snapshot.error_message # None
                    /\ snapshots' = snapshots]_vars

\* A create_snapshot has failed in its copy, its snapshot marked failed with
\* the error, and the catalog holds the one snapshot it held before
C23_Witness ==
    /\ bcall.op = "create_snapshot"
    /\ bcall.pc = "done"
    /\ bcall.result = "Error"
    /\ bcall.snapshot.status = "failed"
    /\ bcall.snapshot.error_message = "copy failed"
    /\ DOMAIN snapshots = {1}
    /\ bcall.sid = 2

\* C24: delete_snapshot returns true exactly when the id was in the catalog
\* and both its storage and its catalog entry were removed; for an id not in
\* the catalog it returns false without an error and changes nothing; on a
\* storage-removal error it returns false without raising.
C24_DeleteIsBestEffort ==
    [][\A sid \in SnapshotIds : \A failing \in SUBSET {sid} :
          DeleteSnapshot(sid, failing) =>
              /\ bret'.op = "delete_snapshot"
              /\ bret'.ok <=>
                    /\ sid \in DOMAIN snapshots
                    /\ sid \notin DOMAIN snapshots'
                    /\ ~store'[sid].exists
              /\ sid \notin DOMAIN snapshots =>
                    /\ ~bret'.ok
                    /\ snapshots' = snapshots
                    /\ store' = store
              /\ (/\ sid \in DOMAIN snapshots
                  /\ store[sid].exists
                  /\ sid \in failing) => ~bret'.ok]_vars

\* A delete_snapshot has returned true: the first snapshot is gone from the
\* catalog and from the disk, the second is in the catalog with its storage
C24_Witness ==
    /\ bret.op = "delete_snapshot"
    /\ bret.ok
    /\ DOMAIN snapshots = {2}
    /\ store[2].exists
    /\ ~store[1].exists
    /\ bcall.pc = "idle"

\* C25: cleanup_old_backups sweeps the stores only if at least one full
\* cleanup interval has elapsed since the previous sweep; a call made sooner
\* returns an empty map, deletes no snapshot, does not move the last-sweep
\* time, and raises no error.
C25_SweepOnlyAfterTheInterval ==
    [][\A failing \in SUBSET (1..MaxSnapshots) :
          CleanupOldBackups(failing) =>
              /\ mret'.op = "cleanup_old_backups"
              /\ mret'.swept => now - last_cleanup >= auto_cleanup_interval
              /\ now - last_cleanup < auto_cleanup_interval =>
                    /\ ~mret'.swept
                    /\ mret'.result = << >>
                    /\ snapshots' = snapshots
                    /\ store' = store
                    /\ last_cleanup' = last_cleanup]_vars

\* A call made on the day of the previous sweep returned the empty map and
\* left in place an expired snapshot that the sweep could not remove
C25_Witness ==
    /\ mret.op = "cleanup_old_backups"
    /\ ~mret.swept
    /\ mret.result = << >>
    /\ last_cleanup = now
    /\ last_cleanup > 0
    /\ \E sid \in DOMAIN snapshots :
          now > snapshots[sid].retention_until /\ store[sid].exists

\* C26: full_health_check returns overall status critical if any checked
\* graph is critical; otherwise degraded if any graph is degraded or the
\* replication validation of any graph failed (returned false or raised);
\* otherwise healthy.
C26_OverallStatusEscalates ==
    fcall.pc = "done" =>
        LET critical == \E g \in fcall.graphs :
                            fcall.graph_healths[g].status = "critical"
            degraded == \E g \in fcall.graphs :
                            fcall.graph_healths[g].status = "degraded"
            replication_failed ==
                \E g \in fcall.graphs :
                    fcall.replication_outcome[g] \in {"False", "raises"}
        IN fcall.overall_status =
              IF critical THEN "critical"
              ELSE IF degraded \/ replication_failed THEN "degraded"
              ELSE "healthy"

\* Every graph was found healthy, the replication validation of a graph
\* raised, and the overall status returned is healthy
C26_Witness ==
    /\ fcall.pc = "done"
    /\ fcall.graphs = GraphIds
    /\ \A g \in fcall.graphs : fcall.graph_healths[g].status = "healthy"
    /\ \E g \in fcall.graphs : fcall.replication_outcome[g] = "raises"
    /\ \A g \in fcall.graphs : fcall.replication_outcome[g] # "False"
    /\ fcall.overall_status = "healthy"

\* C27: validate_all_graphs never raises because an individual graph check
\* failed: it returns one ComponentHealth per requested graph id, and a graph
\* whose check raised is reported with status critical and the exception
\* message while the other graphs keep their own results.
C27_RaisedCheckBecomesCritical ==
    [][\A o \in [fcall.graphs -> HealthOutcomes] :
          FullHealthCheckGraphs(o) =>
              /\ fcall'.pc = "replication"
              /\ DOMAIN fcall'.graph_healths = fcall.graphs
              /\ \A g \in fcall.graphs :
                    LET h == fcall'.graph_healths[g] IN
                    /\ h.component_id = g
                    /\ o[g] = "raises" =>
                          h.status = "critical" /\ h.message = ExceptionMessage
                    /\ o[g] # "raises" =>
                          h.status = o[g] /\ h.message = OwnMessage(o[g])]_vars

\* The check of one graph raised and is reported critical with the
\* exception's message, the other graph is reported degraded as it was found
C27_Witness ==
    /\ fcall.pc = "replication"
    /\ fcall.graphs = GraphIds
    /\ \E g, h \in fcall.graphs :
          /\ fcall.graph_outcome[g] = "raises"
          /\ fcall.graph_healths[g].status = "critical"
          /\ fcall.graph_healths[g].message = ExceptionMessage
          /\ fcall.graph_outcome[h] = "degraded"
          /\ fcall.graph_healths[h].status = "degraded"

\* C28: a persistence-sink failure never fails or rolls back the triggering
\* operation: when the database write raises in the create-snapshot,
\* create-checkpoint or health-check route, the route still returns the
\* operation's successful result and the in-memory snapshot or checkpoint
\* stays stored.
C28_PersistenceFailureIsSwallowed ==
    [][/\ (RouteCreateSnapshot(TRUE) /\ bcall.result = "snapshot") =>
             /\ route'.status = 200
             /\ route'.body.id = bcall.sid
             /\ route'.body.status = "completed"
             /\ bcall.sid \in DOMAIN snapshots'
             /\ snapshots' = snapshots
             /\ store' = store
             /\ db' = db
       /\ \A t \in RTasks :
             (RouteCreateCheckpoint(t, TRUE) /\ rtask[t].result = "stored") =>
                 /\ route'.status = 200
                 /\ route'.body.id = rtask[t].cp
                 /\ rtask[t].cp \in DOMAIN recovery_points'
                 /\ recovery_points' = recovery_points
                 /\ db' = db
       /\ RouteHealth(TRUE) =>
             /\ route'.status = 200
             /\ route'.body.status = fcall.overall_status
             /\ db' = db]_vars

\* The create-snapshot route has answered 200 with the second snapshot, which
\* is in the catalog, while the database holds the record of the first only
C28_Witness ==
    /\ route.route = "create_backup_snapshot"
    /\ route.status = 200
    /\ route.body.id = 2
    /\ DOMAIN snapshots = {1, 2}
    /\ \E r \in db : r.table = "backup_metadata" /\ r.id = 1
    /\ ~\E r \in db : r.table = "backup_metadata" /\ r.id = 2

\* The health fields a check that was answered resp leaves on a target record
HealthFieldsAfter(obj, resp) ==
    /\ resp = "200" => obj.last_error = None /\ obj.last_health_check = now
    /\ resp = "503" =>
          /\ obj.last_error = "Health check returned 503"
          /\ obj.last_health_check = now
    /\ resp = "timeout" => obj.last_error = "Health check timeout"
    /\ resp = "error" => obj.last_error = "transport error"

\* C29: a health check run through any one graph's replicator updates
\* last_health_check and last_error on the one shared target record: the new
\* values are seen through the global registry and through every other
\* replicator that holds the same target id.
C29_HealthFieldsAreShared ==
    [][\A resp \in HealthResponses :
          CheckHealthFinish(resp) =>
              LET id == hcall.target_id IN
              /\ id \in DOMAIN mgr_targets'
              /\ HealthFieldsAfter(target_objs'[mgr_targets'[id]], resp)
              /\ \A g \in DOMAIN replicators' :
                    id \in DOMAIN replicators'[g].targets =>
                        HealthFieldsAfter(
                            target_objs'[replicators'[g].targets[id]], resp)
       ]_vars

\* A check run through the replicator of g1 was answered 503, and the status
\* is read on the target through the replicator of g2 and through the
\* registry
C29_Witness ==
    /\ hcall.pc = "done"
    /\ hcall.graph = "g1"
    /\ hcall.resp = "503"
    /\ "g2" \in DOMAIN replicators
    /\ hcall.target_id \in DOMAIN replicators["g2"].targets
    /\ target_objs[replicators["g2"].targets[hcall.target_id]].last_error =
          "Health check returned 503"
    /\ target_objs[mgr_targets[hcall.target_id]].last_error =
          "Health check returned 503"

\* The threads that have passed the guard of initiate_failover and run the
\* failover
FailingOver ==
    {th \in Threads : fthread[th].pc \in {"validating", "failing_over"}}

\* C30: the failover guard is also exclusive under a multi-threaded runtime:
\* when initiate_failover is entered from several OS threads, no interleaving
\* of the flag check and the flag set lets two callers both pass the guard and
\* run a failover at the same time.
C30_GuardExcludesThreads == Cardinality(FailingOver) <= 1

\* Two threads are past the guard, each running a failover
C30_Witness ==
    /\ Cardinality(FailingOver) = 2
    /\ failover_in_progress

----------------------------------------------------------------------------
(* The replicator's log *)

\* C31: every appended log entry has a terminal status (success or failed,
\* never pending or in_progress) and a completed_at that is set and not
\* earlier than started_at, also when the per-target task was cancelled
C31_LogEntriesAreTerminal ==
    \A g \in DOMAIN replicators :
        \A k \in 1..Len(replicators[g].logs) :
            LET log == replicators[g].logs[k] IN
                /\ log.status \in {"validated", "completed", "failed"}
                /\ log.completed_at # NoTime
                /\ log.completed_at >= log.started_at

\* A replication was cancelled while a target's upload was awaited
C31_Witness ==
    \E g \in DOMAIN replicators :
        \E k \in 1..Len(replicators[g].logs) :
            /\ replicators[g].logs[k].status = "in_progress"
            /\ replicators[g].logs[k].completed_at = NoTime

\* C31 (the part the code keeps): no step removes or alters a log entry
C31_LogIsAppendOnly ==
    [][\A g \in DOMAIN replicators :
          /\ g \in DOMAIN replicators'
          /\ Len(replicators'[g].logs) >= Len(replicators[g].logs)
          /\ \A k \in 1..Len(replicators[g].logs) :
                replicators'[g].logs[k] = replicators[g].logs[k]]_vars

----------------------------------------------------------------------------
(* The content hash of a directory *)

\* C32: two trees that differ in a file's relative path or contents feed the
\* hasher different byte sequences
C32_DifferentTreesFeedDifferentBytes ==
    \A k, l \in Trees :
        /\ hdigest[k].done
        /\ hdigest[l].done
        /\ htree[k].files # htree[l].files
        => hdigest[k].stream # hdigest[l].stream

\* Two different trees were hashed and the hasher was fed the same bytes
C32_Witness ==
    /\ hdigest["left"].done
    /\ hdigest["right"].done
    /\ htree["left"].files # htree["right"].files
    /\ hdigest["left"].stream = hdigest["right"].stream

\* C32 (the part the code keeps): the bytes fed are a function of the set of
\* (relative path, contents) pairs
C32_SameFilesFeedSameBytes ==
    \A k, l \in Trees :
        /\ hdigest[k].done
        /\ hdigest[l].done
        /\ htree[k].files = htree[l].files
        => hdigest[k].stream = hdigest[l].stream

----------------------------------------------------------------------------
(* The snapshot catalog *)

\* The snapshot of the create_snapshot call that has just failed
FailedCreate ==
    /\ bcall.op = "create_snapshot"
    /\ bcall.pc = "done"
    /\ bcall.snapshot.status = "failed"

\* C33: every snapshot of the catalog has status completed or restored, a
\* retention_until and the store's graph id; a snapshot whose creation
\* failed is not in the catalog, is not listed and is not counted
C33_CatalogHoldsFinishedSnapshots ==
    /\ \A sid \in DOMAIN snapshots :
          /\ snapshots[sid].status \in {"completed", "restored"}
          /\ snapshots[sid].retention_until # NoTime
          /\ snapshots[sid].graph_id = BackupGraphId
    /\ \A k \in 1..Len(list_snapshots) :
          /\ list_snapshots[k] \in DOMAIN snapshots
          /\ snapshots[list_snapshots[k]].status \in {"completed", "restored"}
    /\ total_snapshots = Cardinality(DOMAIN snapshots)
    /\ FailedCreate =>
          /\ bcall.sid \notin DOMAIN snapshots
          /\ \A k \in 1..Len(list_snapshots) : list_snapshots[k] # bcall.sid

\* A create_snapshot has failed while the catalog holds a restored snapshot
C33_Witness ==
    /\ FailedCreate
    /\ \E sid \in DOMAIN snapshots : snapshots[sid].status = "restored"

----------------------------------------------------------------------------
(* Restoring a snapshot more than once *)

\* C34: a snapshot is restored successfully at most once
C34_RestoredAtMostOnce ==
    \A sid \in SnapshotIds : tsuccess[sid] <= 1

\* Two restores of one snapshot have returned True
C34_Witness ==
    \E sid \in SnapshotIds : tsuccess[sid] = 2

\* C34 (the part the code keeps): a restore_snapshot that starts when the
\* snapshot is marked restored fails as not valid and leaves the target
\* directory and its sibling untouched
C34_LaterRestoreIsRefused ==
    [][\A c \in Restorers, sid \in 1..MaxSnapshots, d \in TargetDirs :
          /\ sid \in DOMAIN snapshots
          /\ snapshots[sid].status = "restored"
          /\ TaskRestoreStart(c, sid, d)
          => /\ tcall'[c].result = "ValueError"
             /\ tdirs' = tdirs
             /\ tpre' = tpre]_vars

----------------------------------------------------------------------------
(* The targets of a replication in flight *)

\* The log entries the replication in flight has appended
LogsOfCall ==
    SubSeq(replicators[rcall.graph].logs, rcall.logs_at_start + 1,
           Len(replicators[rcall.graph].logs))

\* The ids of the replicator's enabled targets, now
EnabledNow ==
    {id \in DOMAIN replicators[rcall.graph].targets :
        target_objs[replicators[rcall.graph].targets[id]].enabled}

\* C35: a finished replicate_snapshot has attempted and logged exactly the
\* targets that were enabled when it started, whatever was added, enabled,
\* removed or disabled meanwhile; a target whose health check is skipped
\* (unknown) still gets the upload
C35_TargetsFixedAtStart ==
    rcall.pc = "done" =>
        /\ {LogsOfCall[k].target_id : k \in 1..Len(LogsOfCall)}
              = rcall.enabled_at_start
        /\ Len(LogsOfCall) = Cardinality(rcall.enabled_at_start)
        /\ DOMAIN rcall.results = rcall.enabled_at_start
        /\ \A i \in DOMAIN rcall.subs :
              rcall.subs[i].upload = None =>
                  /\ rcall.subs[i].health # None
                  /\ health_status(rcall.subs[i].health) = "unreachable"

\* A replication has finished after one of its targets was removed or
\* disabled and another target was enabled in flight: the first got its
\* upload without a health probe, the second was not attempted
C35_Witness ==
    /\ rcall.pc = "done"
    /\ \E id \in rcall.enabled_at_start \ EnabledNow :
          \E i \in DOMAIN rcall.subs :
              /\ target_objs[rcall.targets[i]].target_id = id
              /\ rcall.subs[i].health = None
              /\ rcall.subs[i].upload # None
    /\ EnabledNow \ rcall.enabled_at_start # {}

----------------------------------------------------------------------------
(* The order of the replication locks *)

\* The thread waits for a lock that is held
BlockedOn(th, l) ==
    /\ lock_thread[th].steps # << >>
    /\ NextStep(th).kind = "acquire"
    /\ NextStep(th).lock = l
    /\ lock_holder[l] # None
Holds(th, l) == lock_holder[l] = th

\* C36: no set of threads wait for locks held within the set; the manager
\* lock is never requested by a thread that holds a replicator lock; no lock
\* is held by a thread that is suspended in an await
C36_NoDeadlock ==
    /\ \A S \in SUBSET Threads \ {{}} :
          ~ \A th \in S : \E l \in Locks :
                BlockedOn(th, l) /\ lock_holder[l] \in S
    /\ \A th \in Threads :
          (\E g \in ReplGraphIds : Holds(th, g)) =>
              /\ ~Holds(th, ManagerLock) =>
                    \A k \in 1..Len(lock_thread[th].steps) :
                        lock_thread[th].steps[k] # Enter(ManagerLock)
    /\ \A th \in Threads :
          /\ lock_thread[th].steps # << >>
          /\ NextStep(th).kind = "await"
          => \A l \in Locks : ~Holds(th, l)

\* register_target holds the manager lock and a replicator lock while
\* another thread waits for that replicator lock
C36_Witness ==
    \E th, other \in Threads : \E g \in ReplGraphIds :
        /\ Holds(th, ManagerLock)
        /\ Holds(th, g)
        /\ BlockedOn(other, g)

----------------------------------------------------------------------------
(* Concurrent deletions of one snapshot *)

\* The snapshots a delete_snapshot has ended for while no thread is still
\* deleting them
DeleteSettled(sid) ==
    /\ \E th \in Threads :
          /\ dthread[th].pc = "done"
          /\ dthread[th].op = "delete_snapshot"
          /\ dthread[th].sid = sid
    /\ \A th \in Threads :
          dthread[th].pc \in {"lookup", "exists", "rmtree", "del"}
              => dthread[th].sid # sid
Gone(sid) == sid \notin DOMAIN snapshots /\ ~store[sid].exists

\* No call raised: each ended with True, False or a count
NoneRaises ==
    \A th \in Threads : dthread[th].result \in {None, "True", "False"}

----------------------------------------------------------------------------
(* The first cleanup interval of a BackupManager *)

\* C38: a cleanup_old_backups call made less than one interval after the
\* manager's construction sweeps nothing and returns an empty map, whatever
\* has expired
C38_ConstructionCountsAsSweep ==
    [][\A failing \in SUBSET (1..MaxSnapshots) :
          /\ CleanupOldBackups(failing)
          /\ now - manager_constructed_at < manager_cleanup_interval
          => /\ ~mret'.swept
             /\ mret'.result = << >>
             /\ snapshots' = snapshots
             /\ store' = store
             /\ last_cleanup' = manager_constructed_at]_vars

\* No sweep has run, a call made within the first interval has returned the
\* empty map, and an expired snapshot is still in the catalog and on disk
C38_Witness ==
    /\ mret.op = "cleanup_old_backups"
    /\ ~mret.swept
    /\ mret.result = << >>
    /\ last_cleanup = manager_constructed_at
    /\ now - manager_constructed_at < manager_cleanup_interval
    /\ \E sid \in DOMAIN snapshots :
          is_expired(snapshots[sid]) /\ store[sid].exists

----------------------------------------------------------------------------
(* One LightRAG instance per graph *)

\* C39: until clear_cache is called, one LightRAG instance is constructed
\* for a graph id and every caller receives that instance
C39_OneInstancePerGraph ==
    ~cache_cleared =>
        /\ \A g \in PoolGraphIds : rag_made[g] <= 1
        /\ \A c \in PoolCallers :
              pool_caller[c].result # NoInstance =>
                  /\ pool_caller[c].graph_id \in DOMAIN rag_instances
                  /\ pool_caller[c].result =
                        rag_instances[pool_caller[c].graph_id]

\* A task and a thread have each constructed an instance for the graph and
\* each has received its own
C39_Witness ==
    /\ ~cache_cleared
    /\ \E c \in PoolTasks, d \in PoolThreads :
          /\ pool_caller[c].pc = "done"
          /\ pool_caller[d].pc = "done"
          /\ pool_caller[c].graph_id = pool_caller[d].graph_id
          /\ pool_caller[c].result # NoInstance
          /\ pool_caller[d].result # NoInstance
          /\ pool_caller[c].result # pool_caller[d].result

----------------------------------------------------------------------------
(* The default graph *)

\* C40: the default graph id is none or the id of a graph of the manager,
\* and get_default_graph() returns metadata exactly when
\* get_default_graph_id() is not none
C40_DefaultIsAGraphOfTheManager ==
    /\ default_graph_id = None \/ InCache(default_graph_id)
    /\ get_default_graph # None <=> get_default_graph_id # None

\* After a create_graph the default graph id names no graph of the manager,
\* though graphs exist
C40_Witness ==
    /\ gm_ret = [op |-> "create_graph", result |-> "sales"]
    /\ default_graph_id = "default"
    /\ ~InCache("default")
    /\ get_default_graph = None
    /\ graphs_cache # << >>

====
